---- MODULE Spec2Model ----
(***************************************************************************)
(* A model of the blockchain demo node (src/src/main.rs, blockchain.rs,    *)
(* block.rs, wallet.rs): the chain with its UTXO index, the pending        *)
(* transaction pool, the sync guard, the network event handling task and   *)
(* the menu task (create transaction, mine block).                         *)
(*                                                                         *)
(* Hashes.  SHA-256 over the serde_json serialization is modelled as a     *)
(* collision-free function: the hash of x is the pair <<"sha256", x>>.     *)
(* The only structure of a block hash the program looks at, its number of  *)
(* leading '0' hex characters, is given by LeadingZeros.  The two literal  *)
(* strings the program compares hashes with ("0" and the 64-zero coinbase  *)
(* marker) are 1-tuples, so that they are comparable with hashes and       *)
(* different from every one of them.                                       *)
(*                                                                         *)
(* Atomicity.  Every piece of shared state is behind a tokio Mutex; the    *)
(* two tasks are interleaved at lock acquisitions and channel sends (the   *)
(* .await points).  A step takes a lock, does the work done under it, and  *)
(* releases it when the code releases it before its next .await; a lock    *)
(* that the code still holds across an .await stays held in the model.     *)
(*                                                                         *)
(* Numbers.  Amounts are u64 in the program.  The model computes the       *)
(* wallet's running total on words of WordBits bits, so that a sum can     *)
(* exceed the word as a sum of u64 values can; every amount the node       *)
(* itself handles is far below the word size.                              *)
(*                                                                         *)
(* Specifications.  Spec lets events and menu commands arrive while the    *)
(* other task is between operations and draws them from the full input     *)
(* sets; SpecConcurrent interleaves the handler with the mining command    *)
(* at every .await and draws the events from smaller sets.  SpecLive       *)
(* interleaves the handler with both menu commands on a shorter chain and  *)
(* a smaller pool, and adds the fairness of the runtime and of the tokio   *)
(* Mutex; channel sends complete in all three.  SpecDrain interleaves the  *)
(* mining command with a stream of peer transfers long enough to fill a    *)
(* block (more than max_tx_per_block) and with peer blocks confirming      *)
(* pooled transfers.  SpecChannels follows only the two bounded channels   *)
(* between the handler task and the transport's event loop, with peers     *)
(* that keep requesting the chain: there a send waits for room.            *)
(*                                                                         *)
(* Functions.  validate_block, validate_transaction, Block::mine,          *)
(* create_transaction, get_balance and load_from_file are operators;       *)
(* properties of them are stated for probe arguments built next to every   *)
(* reachable chain (ProbeBlocks, ProbeTransactions, ProbeViews, ...).  A    *)
(* call that panics has no value: a predicate beside the operator says     *)
(* when it does (SelectionOverflows, get_balance_overflows,                *)
(* load_from_file_panics).                                                 *)
(*                                                                         *)
(* Events.  The handler is modelled for the events its match has arms      *)
(* for.  The transport forwards NewBlock, NewTransaction, RequestBlocks    *)
(* and SendBlocks to the handler's channel (network.rs:481-516) and sends  *)
(* PeerConnected and PeerDisconnected on its own channel                   *)
(* (network.rs:443, 452).                                                  *)
(***************************************************************************)
EXTENDS Integers, Sequences, FiniteSets, Bags, TLC

VARIABLES
    blockchain,            \* main.rs:77   Blockchain {blocks, utxo_set, difficulty}
    blockchain_json,       \* the file "blockchain.json" written by save_to_file
    pending_transactions,  \* main.rs:85   VecDeque<Transaction>
    sync_in_progress,      \* main.rs:119  bool
    chain_lock,            \* holder of the blockchain mutex
    pool_lock,             \* holder of the pending_transactions mutex
    hpc,                   \* position of the network event handling task
    event,                 \* the event that task is handling
    sent,                  \* events that task has sent on network_tx for this event
    mpc,                   \* position of the menu task
    transactions,          \* menu task: the transaction(s) it is working with
    created_tx,            \* main.rs:562  the transaction option 1 has created, if any
    broadcast,             \* events the menu task has sent on network_tx in this command
    app_channel,           \* main.rs:81   events queued from the transport to the handler
    event_channel,         \* network.rs:606  events queued for the transport (network_tx)
    npc                    \* position of the transport's event loop (network.rs:299-317)

vars == <<blockchain, blockchain_json, pending_transactions, sync_in_progress,
          chain_lock, pool_lock, hpc, event, sent, mpc, transactions, created_tx, broadcast,
          app_channel, event_channel, npc>>

-----------------------------------------------------------------------------
(* Bounds of the model *)

MaxChain == 3
MaxPool == 2
MaxClock == 1
WordBits == 10   \* a u64 is modelled as a word of WordBits bits

(* Program constants *)

Difficulty == 2
max_iterations == 1000000
max_tx_per_block == 10
GenesisTimestamp == 1748793600
GenesisReward == 100
MiningReward == 50

-----------------------------------------------------------------------------
(* Data: block.rs *)

COINBASE_PREV_TX == <<"0000000000000000000000000000000000000000000000000000000000000000">>
ZERO_PREV_HASH == <<"0">>

TxInput(prev_tx, prev_index, script_sig) ==
    [prev_tx |-> prev_tx, prev_index |-> prev_index, script_sig |-> script_sig]

TxOutput(value, script_pubkey) == [value |-> value, script_pubkey |-> script_pubkey]

Transaction_new(inputs, outputs) == [inputs |-> inputs, outputs |-> outputs]

BlockHeader(timestamp, prev_hash, merkle_root, nonce, difficulty) ==
    [timestamp |-> timestamp, prev_hash |-> prev_hash, merkle_root |-> merkle_root,
     nonce |-> nonce, difficulty |-> difficulty]

\* Block::new with Utc::now() = now
Block_new(prev_hash, difficulty, now) ==
    [header |-> BlockHeader(now, prev_hash, "", 0, difficulty), transactions |-> <<>>]

\* hex(sha256(serde_json(x)))
Sha256Hex(x) == <<"sha256", x>>

calculate_hash(block) == Sha256Hex(block)

calculate_tx_hash(tx) == Sha256Hex(tx)

\* Transaction::calculate_hash, called by main.rs on pooled transactions
tx_calculate_hash(tx) == Sha256Hex(tx)

\* The number of leading '0' characters of calculate_hash(block): a fixed function of
\* the block's content that changes with every nonce.
LeadingZeros(block) ==
    LET d == (Len(block.transactions) + block.header.timestamp + block.header.nonce) % 3
    IN  IF d = 0 THEN 2 ELSE IF d = 1 THEN 1 ELSE 0

\* A difficulty test that asks for one more '0' than the header declares
is_valid_strict(block) == LeadingZeros(block) > block.header.difficulty

\* Block::is_valid: hash.starts_with("0".repeat(difficulty))
is_valid(block) ==
    \/ block.header.difficulty = 0
    \/ LeadingZeros(block) >= block.header.difficulty

WithNonce(block, n) == [block EXCEPT !.header.nonce = n]

\* A loop that increments before it tests (do .. while)
mine_do_while(block) ==
    LET n0 == block.header.nonce + 1
        hits == {i \in 0..2 : is_valid(WithNonce(block, n0 + i))}
    IN  IF hits = {}
        THEN WithNonce(block, n0 + max_iterations - 1)
        ELSE WithNonce(block, n0 + CHOOSE i \in hits : \A j \in hits : i <= j)

\* A loop that tests iterations <= max_iterations: one increment too many
mine_past_ceiling(block) ==
    LET n0 == block.header.nonce
        hits == {i \in 0..2 : is_valid(WithNonce(block, n0 + i))}
    IN  IF hits = {}
        THEN WithNonce(block, n0 + max_iterations + 1)
        ELSE WithNonce(block, n0 + CHOOSE i \in hits : \A j \in hits : i <= j)

\* Block::mine: nonce += 1 while !is_valid() && iterations < max_iterations.
\* LeadingZeros has period 3 in the nonce, so the loop either stops within its first
\* 3 iterations or runs all max_iterations of them.
mine(block) ==
    LET n0 == block.header.nonce
        hits == {i \in 0..2 : is_valid(WithNonce(block, n0 + i))}
    IN  IF hits = {}
        THEN WithNonce(block, n0 + max_iterations)
        ELSE WithNonce(block, n0 + CHOOSE i \in hits : \A j \in hits : i <= j)

-----------------------------------------------------------------------------
(* HashMap<String, Vec<(u32, u64)>> *)

EmptyMap == [k \in {} |-> <<>>]

MapPut(m, k, v) == [x \in (DOMAIN m) \cup {k} |-> IF x = k THEN v ELSE m[x]]

\* A removal that leaves the key with an empty vector
MapRemoveLeavingKey(m, k) == [x \in DOMAIN m |-> IF x = k THEN <<>> ELSE m[x]]

MapRemove(m, k) == [x \in (DOMAIN m) \ {k} |-> m[x]]

Range(s) == {s[i] : i \in DOMAIN s}

\* u64 arithmetic: without overflow checks (the release profile) a sum wraps at the
\* word size; with them (the debug profile) the addition panics
U64Modulus == 2^WordBits

RECURSIVE SumValues(_)
SumValues(values) == IF values = <<>> THEN 0 ELSE Head(values) + SumValues(Tail(values))

RECURSIVE SumOver(_, _)
\* The total value of the entries of a UTXO view under the given keys
SumOver(utxo_set, keys) ==
    IF keys = {} THEN 0
    ELSE LET k == CHOOSE x \in keys : TRUE
         IN  SumValues([j \in DOMAIN utxo_set[k] |-> utxo_set[k][j][2]])
             + SumOver(utxo_set, keys \ {k})

RECURSIVE Retain(_, _)
\* outputs.retain(|&(idx, _)| idx != prev_index)
Retain(outputs, prev_index) ==
    IF outputs = <<>> THEN <<>>
    ELSE IF Head(outputs)[1] # prev_index
         THEN <<Head(outputs)>> \o Retain(Tail(outputs), prev_index)
         ELSE Retain(Tail(outputs), prev_index)

RECURSIVE AllTransactions(_)
\* for block in &self.blocks { for tx in &block.transactions {..} }
AllTransactions(blocks) ==
    IF blocks = <<>> THEN <<>>
    ELSE Head(blocks).transactions \o AllTransactions(Tail(blocks))

RECURSIVE AllInputs(_)
AllInputs(txs) ==
    IF txs = <<>> THEN <<>> ELSE Head(txs).inputs \o AllInputs(Tail(txs))

RECURSIVE AddOutputs(_, _)
\* update_utxo_set, first pass: every output of every transaction is pushed under
\* the transaction's hash
AddOutputs(utxo, txs) ==
    IF txs = <<>> THEN utxo
    ELSE LET tx == Head(txs)
             tx_id == calculate_tx_hash(tx)
             old == IF tx_id \in DOMAIN utxo THEN utxo[tx_id] ELSE <<>>
             new == [i \in 1..Len(tx.outputs) |-> <<i - 1, tx.outputs[i].value>>]
         IN  AddOutputs(IF tx.outputs = <<>> THEN utxo ELSE MapPut(utxo, tx_id, old \o new),
                        Tail(txs))

RECURSIVE RemoveSpent(_, _)
\* update_utxo_set, second pass: every non-coinbase input removes the entries with
\* its index under its prev_tx, and the key when nothing is left
RemoveSpent(utxo, inputs) ==
    IF inputs = <<>> THEN utxo
    ELSE LET input == Head(inputs)
             rest == Tail(inputs)
         IN  IF input.prev_tx = COINBASE_PREV_TX THEN RemoveSpent(utxo, rest)
             ELSE IF input.prev_tx \in DOMAIN utxo
                  THEN LET outputs == Retain(utxo[input.prev_tx], input.prev_index)
                       IN  RemoveSpent(IF outputs = <<>>
                                       THEN MapRemove(utxo, input.prev_tx)
                                       ELSE MapPut(utxo, input.prev_tx, outputs),
                                       rest)
                  ELSE RemoveSpent(utxo, rest)

\* Blockchain::update_utxo_set: the index as a function of the block list
update_utxo_set(blocks) ==
    LET txs == AllTransactions(blocks)
    IN  RemoveSpent(AddOutputs(EmptyMap, txs), AllInputs(txs))

-----------------------------------------------------------------------------
(* blockchain.rs *)

Last(s) == s[Len(s)]

\* save_to_file: the file holds the serialized block list
save_to_file(blocks) == <<"json", blocks>>

NoFile == <<"absent">>

GenesisCoinbase ==
    Transaction_new(
        <<TxInput(COINBASE_PREV_TX, 0, "Genesis Block - Blockchain Demo")>>,
        <<TxOutput(GenesisReward, "genesis_address")>>)

create_genesis_block(difficulty) ==
    [header |-> BlockHeader(GenesisTimestamp, ZERO_PREV_HASH, "genesis_merkle_root",
                            0, difficulty),
     transactions |-> <<GenesisCoinbase>>]

Blockchain_new(difficulty) ==
    LET blocks == <<create_genesis_block(difficulty)>>
    IN  [blocks |-> blocks, utxo_set |-> update_utxo_set(blocks), difficulty |-> difficulty]

\* add_block linking to a tip read before the chain lock was taken: the first block
add_block_on_stale_tip(bc, txs, now) ==
    LET prev_hash == calculate_hash(bc.blocks[1])
        new_block == mine([Block_new(prev_hash, bc.difficulty, now)
                              EXCEPT !.transactions = txs])
        blocks == Append(bc.blocks, new_block)
    IN  [bc EXCEPT !.blocks = blocks, !.utxo_set = update_utxo_set(blocks)]

\* A check that looks for the transaction in the index but not for the output
validate_transaction_key_only(bc, tx) ==
    \A i \in DOMAIN tx.inputs :
        \/ tx.inputs[i].prev_tx = COINBASE_PREV_TX
        \/ tx.inputs[i].prev_tx \in DOMAIN bc.utxo_set

\* Blockchain::add_block with Utc::now() = now; the caller writes the snapshot
add_block(bc, txs, now) ==
    LET prev_hash == calculate_hash(Last(bc.blocks))
        new_block == mine([Block_new(prev_hash, bc.difficulty, now)
                              EXCEPT !.transactions = txs])
        blocks == Append(bc.blocks, new_block)
    IN  [bc EXCEPT !.blocks = blocks, !.utxo_set = update_utxo_set(blocks)]

validate_transaction(bc, tx) ==
    \A i \in DOMAIN tx.inputs :
        LET input == tx.inputs[i]
        IN  \/ input.prev_tx = COINBASE_PREV_TX
            \/ /\ input.prev_tx \in DOMAIN bc.utxo_set
               /\ \E j \in DOMAIN bc.utxo_set[input.prev_tx] :
                      bc.utxo_set[input.prev_tx][j][1] = input.prev_index

\* A validation without the prev_hash comparison
validate_block_unlinked(bc, block) ==
    /\ is_valid(block)
    /\ \A i \in DOMAIN block.transactions : validate_transaction(bc, block.transactions[i])

validate_block(bc, block) ==
    /\ is_valid(block)
    /\ IF bc.blocks # <<>>
       THEN block.header.prev_hash = calculate_hash(Last(bc.blocks))
       ELSE block.header.prev_hash = ZERO_PREV_HASH
    /\ \A i \in DOMAIN block.transactions : validate_transaction(bc, block.transactions[i])

\* get_balance's search: the first transaction of the chain with hash tx_id, as
\* Some (<<tx>>) or None (<<>>)
tx_found(blocks, tx_id) ==
    LET txs == AllTransactions(blocks)
        hits == {p \in DOMAIN txs : calculate_tx_hash(txs[p]) = tx_id}
    IN  IF hits = {} THEN <<>> ELSE <<txs[CHOOSE p \in hits : \A q \in hits : p <= q]>>

RECURSIVE BalanceOfOutputs(_, _, _)
\* get_balance, inner loop: the values of the outputs of tx that the entries name and
\* that pay address
BalanceOfOutputs(tx, outputs, address) ==
    IF outputs = <<>> THEN 0
    ELSE LET output_idx == Head(outputs)[1]
         IN  (IF /\ (output_idx + 1) \in DOMAIN tx.outputs
                 /\ tx.outputs[output_idx + 1].script_pubkey = address
              THEN tx.outputs[output_idx + 1].value ELSE 0)
             + BalanceOfOutputs(tx, Tail(outputs), address)

RECURSIVE BalanceOver(_, _, _)
\* get_balance, outer loop over the index, summed without regard to the word size
BalanceOver(bc, address, keys) ==
    IF keys = {} THEN 0
    ELSE LET tx_id == CHOOSE k \in keys : TRUE
             found == tx_found(bc.blocks, tx_id)
         IN  (IF found = <<>> THEN 0
              ELSE BalanceOfOutputs(found[1], bc.utxo_set[tx_id], address))
             + BalanceOver(bc, address, keys \ {tx_id})

\* Blockchain::get_balance: balance is a u64, so without overflow checks the sum wraps
get_balance(bc, address) == BalanceOver(bc, address, DOMAIN bc.utxo_set) % U64Modulus

\* balance += output.value overflows; with overflow checks get_balance panics
get_balance_overflows(bc, address) ==
    BalanceOver(bc, address, DOMAIN bc.utxo_set) >= U64Modulus

\* Blockchain::add_received_block; the caller writes the snapshot
add_received_block(bc, block) ==
    LET blocks == Append(bc.blocks, block)
    IN  [bc EXCEPT !.blocks = blocks, !.utxo_set = update_utxo_set(blocks)]

\* Blockchain::replace_chain (the UTXO index is not touched); the caller writes the
\* snapshot
replace_chain(bc, blocks) == [bc EXCEPT !.blocks = blocks]

\* A rebuild that leaves the index as it was
rebuild_utxo_set_skipped(bc) == bc

\* A rebuild without the clear(): the two passes run over the index as it is
rebuild_utxo_set_without_clear(bc) ==
    LET txs == AllTransactions(bc.blocks)
    IN  [bc EXCEPT !.utxo_set = RemoveSpent(AddOutputs(bc.utxo_set, txs), AllInputs(txs))]

\* Blockchain::rebuild_utxo_set
rebuild_utxo_set(bc) == [bc EXCEPT !.utxo_set = update_utxo_set(bc.blocks)]

\* A file whose content serde_json cannot read as a Vec<Block>
NotJson == <<"text", "not a block list">>

\* serde_json::from_str::<Vec<Block>> succeeds on what save_to_file writes, for any
\* block list, the empty one included
ParsesAsBlocks(file) == file # NoFile /\ file[1] = "json"

\* blocks[0] on an empty Vec: load_from_file panics (index out of bounds)
load_from_file_panics(file) == ParsesAsBlocks(file) /\ file[2] = <<>>

\* Blockchain::load_from_file: None (<<>>) when the file is absent or unreadable, else
\* the chain with the difficulty of its first block and the index built from its
\* blocks.  It has no value where load_from_file_panics.
load_from_file(file) ==
    IF ~ParsesAsBlocks(file) THEN <<>>
    ELSE LET blocks == file[2]
         IN  <<[blocks |-> blocks, utxo_set |-> update_utxo_set(blocks),
                difficulty |-> blocks[1].header.difficulty]>>

-----------------------------------------------------------------------------
(* wallet.rs *)

WalletAddress == "wallet_address"

\* The orders in which a HashMap with these keys may be iterated
IterationOrders(keys) ==
    {o \in [1..Cardinality(keys) -> keys] : \A i, j \in DOMAIN o : o[i] = o[j] => i = j}

RECURSIVE UtxoEntries(_, _)
\* for (tx_id, outputs) in utxo_set { for (index, value) in outputs {..} }
UtxoEntries(utxo_set, order) ==
    IF order = <<>> THEN <<>>
    ELSE [j \in DOMAIN utxo_set[Head(order)] |->
             [tx_id |-> Head(order), index |-> utxo_set[Head(order)][j][1],
              value |-> utxo_set[Head(order)][j][2]]]
         \o UtxoEntries(utxo_set, Tail(order))

RECURSIVE SelectInputs(_, _, _, _)
\* the selection loop of create_transaction: entries are taken until total_input
\* reaches the amount; total_input is a u64
SelectInputs(entries, amount, inputs, total_input) ==
    IF entries = <<>> \/ total_input >= amount
    THEN [inputs |-> inputs, total_input |-> total_input]
    ELSE SelectInputs(Tail(entries), amount,
                      Append(inputs, TxInput(Head(entries).tx_id, Head(entries).index,
                                             WalletAddress)),
                      (total_input + Head(entries).value) % U64Modulus)

RECURSIVE SelectedValues(_, _, _)
\* the values of the entries that loop takes, in the order it takes them
SelectedValues(entries, amount, total_input) ==
    IF entries = <<>> \/ total_input >= amount THEN <<>>
    ELSE <<Head(entries).value>>
         \o SelectedValues(Tail(entries), amount,
                           (total_input + Head(entries).value) % U64Modulus)

\* total_input += value overflows for this view, amount and iteration order
SelectionOverflows(amount, utxo_set, order) ==
    SumValues(SelectedValues(UtxoEntries(utxo_set, order), amount, 0)) >= U64Modulus

\* A wallet that pays with whatever it has selected: None only for an empty selection
create_transaction_underfunded(to_address, amount, utxo_set, order) ==
    LET sel == SelectInputs(UtxoEntries(utxo_set, order), amount, <<>>, 0)
    IN  IF sel.inputs = <<>> THEN <<>>
        ELSE <<Transaction_new(
                 sel.inputs,
                 <<TxOutput(amount, to_address)>>
                 \o (IF sel.total_input > amount
                     THEN <<TxOutput(sel.total_input - amount, WalletAddress)>>
                     ELSE <<>>))>>

\* Wallet::create_transaction; None is <<>>, Some(tx) is <<tx>>
create_transaction(to_address, amount, utxo_set, order) ==
    LET sel == SelectInputs(UtxoEntries(utxo_set, order), amount, <<>>, 0)
    IN  IF sel.total_input < amount THEN <<>>
        ELSE <<Transaction_new(
                 sel.inputs,
                 <<TxOutput(amount, to_address)>>
                 \o (IF sel.total_input > amount
                     THEN <<TxOutput(sel.total_input - amount, WalletAddress)>>
                     ELSE <<>>))>>

\* Wallet::sign_transaction: every script_sig becomes "address:signature"; the ECDSA
\* signature (RFC 6979) is a function of the transaction and the key
sign_transaction(tx) ==
    [tx EXCEPT !.inputs = [i \in DOMAIN tx.inputs |->
                              [tx.inputs[i] EXCEPT !.script_sig = "wallet_address:signature"]]]


-----------------------------------------------------------------------------
(* What the environment may deliver: the clock, the peers' transactions, blocks *)
(* and chains, the user's menu input                                            *)

Clock == {GenesisTimestamp + c : c \in 1..MaxClock}

\* A peer's mining reward (main.rs:587-602 run by a peer with another wallet)
PeerCoinbase ==
    Transaction_new(<<TxInput(COINBASE_PREV_TX, 0, "mining reward")>>,
                    <<TxOutput(MiningReward, "peer_address")>>)

\* A peer's transfer that spends the genesis output
PeerTransfer ==
    Transaction_new(
        <<TxInput(calculate_tx_hash(GenesisCoinbase), 0, "peer_address:signature")>>,
        <<TxOutput(70, "bob_address"), TxOutput(30, "peer_address")>>)

\* A peer's transfer that spends the peer's mining reward
PeerSpendReward ==
    Transaction_new(
        <<TxInput(calculate_tx_hash(PeerCoinbase), 0, "peer_address:signature")>>,
        <<TxOutput(MiningReward, "bob_address")>>)

RemoteTransactions == {PeerSpendReward}

RemoteBlockBodies ==
    {<<PeerCoinbase>>, <<PeerCoinbase, PeerTransfer>>, <<PeerCoinbase, PeerSpendReward>>}

\* A block built by a peer on prev_hash: mined at the chain's difficulty or left
\* unmined (nonce 0)
PeerBlock(prev_hash, body, now, how) ==
    LET b == [Block_new(prev_hash, Difficulty, now) EXCEPT !.transactions = body]
    IN  IF how = "mined" THEN mine(b) ELSE b

\* A block a peer builds on prev_hash declaring difficulty 0 in its header, not mined
EasyBlock(prev_hash, now) ==
    [Block_new(prev_hash, 0, now) EXCEPT !.transactions = <<PeerCoinbase>>]

\* A first block that is not the genesis block although its prev_hash is "0"
ForgedGenesis ==
    [header |-> BlockHeader(GenesisTimestamp, ZERO_PREV_HASH, "genesis_merkle_root",
                            0, Difficulty),
     transactions |-> <<PeerCoinbase>>]

\* Blocks a peer may announce: mined on our tip, unmined, or built on our first block
RemoteBlocks(bc) ==
    {PeerBlock(calculate_hash(Last(bc.blocks)), body, now, "mined") :
        body \in RemoteBlockBodies, now \in Clock}
    \cup {PeerBlock(calculate_hash(Last(bc.blocks)), <<PeerCoinbase>>, now, "unmined") :
            now \in Clock}
    \cup {PeerBlock(calculate_hash(bc.blocks[1]), <<PeerCoinbase>>, now, "mined") :
            now \in Clock}

\* The chain c extended by one mined peer block
Extend(c, body, now) == Append(c, PeerBlock(calculate_hash(Last(c)), body, now, "mined"))

\* Block lists a peer may answer a RequestBlocks with: a prefix of our chain, our chain
\* extended by one block, a peer's own chain from our first block, or a chain that
\* does not start at the genesis block
RemoteChains(bc) ==
    LET prefixes == {SubSeq(bc.blocks, 1, k) : k \in 1..Len(bc.blocks)}
        longer == {Append(bc.blocks, b) : b \in RemoteBlocks(bc)}
        peer == {Extend(Extend(<<bc.blocks[1]>>, <<PeerCoinbase>>, now), body, now) :
                    body \in {<<PeerCoinbase, PeerSpendReward>>,
                              <<PeerSpendReward, PeerCoinbase>>},
                    now \in Clock}
        forged == {<<ForgedGenesis>>}
                  \cup {Extend(<<ForgedGenesis>>, <<PeerCoinbase, PeerTransfer>>, now) :
                          now \in Clock}
    IN  {c \in prefixes \cup longer \cup peer \cup forged : Len(c) <= MaxChain}

Amounts == {MiningReward, 500}

Recipients == {"bob_address"}

-----------------------------------------------------------------------------
(* The state after construction: main.rs:77-119 *)

NoEvent == [type |-> "None"]

Init ==
    /\ blockchain = Blockchain_new(Difficulty)
    /\ blockchain_json = NoFile
    /\ pending_transactions = <<>>
    /\ sync_in_progress = FALSE
    /\ chain_lock = "free"
    /\ pool_lock = "free"
    /\ hpc = "recv"
    /\ event = NoEvent
    /\ sent = <<>>
    /\ mpc = "menu"
    /\ transactions = <<>>
    /\ created_tx = <<>>
    /\ broadcast = <<>>
    /\ app_channel = 0
    /\ event_channel = 0
    /\ npc = "select"

main_vars == <<mpc, transactions, created_tx, broadcast>>
handler_vars == <<hpc, event, sent>>
network_vars == <<app_channel, event_channel, npc>>

\* pending_transactions.iter().any(|tx| tx.calculate_hash() == tx_hash)
is_duplicate(pool, tx) ==
    \E i \in DOMAIN pool : tx_calculate_hash(pool[i]) = tx_calculate_hash(tx)

\* pending_transactions.retain(|tx| !hashes.contains(&tx.calculate_hash()))
RECURSIVE retain_unconfirmed(_, _)
retain_unconfirmed(pool, hashes) ==
    IF pool = <<>> THEN <<>>
    ELSE IF tx_calculate_hash(Head(pool)) \in hashes
         THEN retain_unconfirmed(Tail(pool), hashes)
         ELSE <<Head(pool)>> \o retain_unconfirmed(Tail(pool), hashes)

TxHashes(txs) == {tx_calculate_hash(txs[i]) : i \in DOMAIN txs}


-----------------------------------------------------------------------------
(* The network event handling task: main.rs:148-516 *)

RequestBlocks == [type |-> "RequestBlocks"]

\* NewBlock, main.rs:151-167 and 190-194: under the chain lock the block is validated
\* and, when valid, appended
HandleNewBlock(block) ==
    /\ hpc = "recv"
    /\ chain_lock = "free"
    /\ Len(blockchain.blocks) < MaxChain
    /\ event' = [type |-> "NewBlock", block |-> block]
    /\ IF validate_block(blockchain, block)
       THEN /\ blockchain' = add_received_block(blockchain, block)
            /\ blockchain_json' = save_to_file(blockchain'.blocks)
            /\ hpc' = "nb_reconcile"
       ELSE /\ UNCHANGED <<blockchain, blockchain_json>>
            /\ hpc' = "nb_request"
    /\ UNCHANGED <<pending_transactions, sync_in_progress, chain_lock, pool_lock, sent,
                   main_vars, network_vars>>

\* main.rs:169-188: the block's transactions leave the pool
NewBlockReconcile ==
    /\ hpc = "nb_reconcile"
    /\ pool_lock = "free"
    /\ pending_transactions' =
           retain_unconfirmed(pending_transactions, TxHashes(event.block.transactions))
    /\ hpc' = "done"
    /\ UNCHANGED <<blockchain, blockchain_json, sync_in_progress, chain_lock, pool_lock,
                   event, sent, main_vars, network_vars>>

\* A request that also raises the sync guard, as the PeerConnected arm does
NewBlockRequestSyncRaisingGuard ==
    /\ hpc = "nb_request"
    /\ sent' = Append(sent, RequestBlocks)
    /\ sync_in_progress' = TRUE
    /\ hpc' = "done"
    /\ UNCHANGED <<blockchain, blockchain_json, pending_transactions, chain_lock,
                   pool_lock, event, main_vars, network_vars>>

\* main.rs:196-201
NewBlockRequestSync ==
    /\ hpc = "nb_request"
    /\ sent' = Append(sent, RequestBlocks)
    /\ hpc' = "done"
    /\ UNCHANGED <<blockchain, blockchain_json, pending_transactions, sync_in_progress,
                   chain_lock, pool_lock, event, main_vars, network_vars>>

\* NewTransaction, main.rs:204-214 and 237: the chain lock is taken and stays held on
\* the valid path (the guard lives to the end of the arm)
ReceiveNewTransaction(tx) ==
    /\ hpc = "recv"
    /\ chain_lock = "free"
    /\ event' = [type |-> "NewTransaction", transaction |-> tx]
    /\ IF validate_transaction(blockchain, tx)
       THEN chain_lock' = "handler" /\ hpc' = "nt_admit_valid"
       ELSE chain_lock' = "free" /\ hpc' = "nt_admit_invalid"
    /\ UNCHANGED <<blockchain, blockchain_json, pending_transactions, sync_in_progress,
                   pool_lock, sent, main_vars, network_vars>>

\* A NewTransaction event arrives while the pool has room in the model
HandleNewTransaction(tx) ==
    /\ Len(pending_transactions) < MaxPool
    /\ ReceiveNewTransaction(tx)

\* main.rs:217-231
AdmitValid ==
    /\ hpc = "nt_admit_valid"
    /\ pool_lock = "free"
    /\ pending_transactions' =
           IF is_duplicate(pending_transactions, event.transaction)
           THEN pending_transactions
           ELSE Append(pending_transactions, event.transaction)
    /\ chain_lock' = "free"
    /\ hpc' = "done"
    /\ UNCHANGED <<blockchain, blockchain_json, sync_in_progress, pool_lock, event, sent,
                   main_vars, network_vars>>

\* An invalid branch that turns the transaction away and only asks for the chain
AdmitInvalidRejecting ==
    /\ hpc = "nt_admit_invalid"
    /\ pool_lock = "free"
    /\ pool_lock' = "handler"
    /\ hpc' = "nt_request"
    /\ UNCHANGED <<blockchain, blockchain_json, pending_transactions, sync_in_progress,
                   chain_lock, event, sent, main_vars, network_vars>>

\* main.rs:239-251: the pool lock stays held over the send that follows
AdmitInvalid ==
    /\ hpc = "nt_admit_invalid"
    /\ pool_lock = "free"
    /\ pending_transactions' =
           IF is_duplicate(pending_transactions, event.transaction)
           THEN pending_transactions
           ELSE Append(pending_transactions, event.transaction)
    /\ pool_lock' = "handler"
    /\ hpc' = "nt_request"
    /\ UNCHANGED <<blockchain, blockchain_json, sync_in_progress, chain_lock, event, sent,
                   main_vars, network_vars>>

\* main.rs:253-259
NewTransactionRequestSync ==
    /\ hpc = "nt_request"
    /\ sent' = Append(sent, RequestBlocks)
    /\ pool_lock' = "free"
    /\ hpc' = "done"
    /\ UNCHANGED <<blockchain, blockchain_json, pending_transactions, sync_in_progress,
                   chain_lock, event, main_vars, network_vars>>

\* RequestBlocks, main.rs:261-272: the chain is cloned under the lock
HandleRequestBlocks ==
    /\ hpc = "recv"
    /\ chain_lock = "free"
    /\ event' = [type |-> "RequestBlocks", blocks_to_send |-> blockchain.blocks]
    /\ hpc' = "rb_send"
    /\ UNCHANGED <<blockchain, blockchain_json, pending_transactions, sync_in_progress,
                   chain_lock, pool_lock, sent, main_vars, network_vars>>

\* An answer that reads the chain again when it sends
SendBlocksResponseRereading ==
    /\ hpc = "rb_send"
    /\ sent' = Append(sent, [type |-> "SendBlocks", blocks |-> blockchain.blocks])
    /\ hpc' = "done"
    /\ UNCHANGED <<blockchain, blockchain_json, pending_transactions, sync_in_progress,
                   chain_lock, pool_lock, event, main_vars, network_vars>>

\* main.rs:274-279
SendBlocksResponse ==
    /\ hpc = "rb_send"
    /\ sent' = Append(sent, [type |-> "SendBlocks", blocks |-> event.blocks_to_send])
    /\ hpc' = "done"
    /\ UNCHANGED <<blockchain, blockchain_json, pending_transactions, sync_in_progress,
                   chain_lock, pool_lock, event, main_vars, network_vars>>

\* SendBlocks with an empty list, main.rs:281-287: `return` leaves the async block, so
\* the task ends
HandleSendBlocksEmpty ==
    /\ hpc = "recv"
    /\ event' = [type |-> "SendBlocks", blocks |-> <<>>]
    /\ hpc' = "returned"
    /\ UNCHANGED <<blockchain, blockchain_json, pending_transactions, sync_in_progress,
                   chain_lock, pool_lock, sent, main_vars, network_vars>>

RECURSIVE VerifyChain(_, _, _, _)
\* main.rs:303-323: the loop over the received blocks, from block i on; temp is the
\* temporary chain, file what "blockchain.json" holds (add_received_block writes it).
\* The result is [is_valid_chain, file].
VerifyChain(temp, file, blocks, i) ==
    IF i > Len(blocks) THEN [is_valid_chain |-> TRUE, file |-> file]
    ELSE IF i = 1
         THEN IF blocks[1].header.prev_hash # ZERO_PREV_HASH
              THEN [is_valid_chain |-> FALSE, file |-> file]
              ELSE VerifyChain(rebuild_utxo_set([temp EXCEPT !.blocks = Append(@, blocks[1])]),
                               file, blocks, 2)
         ELSE IF validate_block(temp, blocks[i])
              THEN LET next == add_received_block(temp, blocks[i])
                   IN  VerifyChain(next, save_to_file(next.blocks), blocks, i + 1)
              ELSE [is_valid_chain |-> FALSE, file |-> file]

\* main.rs:298-323
verify_received(bc, file, blocks) ==
    VerifyChain(Blockchain_new(bc.difficulty), file, blocks, 1)

\* A SendBlocks arm that installs a longer candidate before it knows the verdict
HandleSendBlocksReplacingFirst(blocks) ==
    /\ hpc = "recv"
    /\ chain_lock = "free"
    /\ blocks # <<>>
    /\ event' = [type |-> "SendBlocks", blocks |-> blocks]
    /\ IF Len(blocks) > Len(blockchain.blocks)
       THEN LET v == verify_received(blockchain, blockchain_json, blocks)
            IN  /\ blockchain' = rebuild_utxo_set(replace_chain(blockchain, blocks))
                /\ blockchain_json' = save_to_file(blocks)
                /\ IF v.is_valid_chain
                   THEN chain_lock' = "free" /\ hpc' = "sb_reconcile"
                   ELSE chain_lock' = "handler" /\ hpc' = "sb_reset"
       ELSE /\ chain_lock' = "handler"
            /\ hpc' = "sb_reset"
            /\ UNCHANGED <<blockchain, blockchain_json>>
    /\ UNCHANGED <<pending_transactions, sync_in_progress, pool_lock, sent, main_vars,
                   network_vars>>

\* A SendBlocks arm without the length comparison: any candidate that verifies is
\* installed
HandleSendBlocksAnyLength(blocks) ==
    /\ hpc = "recv"
    /\ chain_lock = "free"
    /\ blocks # <<>>
    /\ event' = [type |-> "SendBlocks", blocks |-> blocks]
    /\ LET v == verify_received(blockchain, blockchain_json, blocks)
       IN  IF v.is_valid_chain
           THEN /\ blockchain' = rebuild_utxo_set(replace_chain(blockchain, blocks))
                /\ blockchain_json' = save_to_file(blocks)
                /\ chain_lock' = "free"
                /\ hpc' = "sb_reconcile"
           ELSE /\ blockchain_json' = v.file
                /\ chain_lock' = "handler"
                /\ hpc' = "sb_reset"
                /\ UNCHANGED blockchain
    /\ UNCHANGED <<pending_transactions, sync_in_progress, pool_lock, sent, main_vars,
                   network_vars>>

\* SendBlocks with blocks, main.rs:289-337 and 362-386, under the chain lock.  The lock
\* is dropped on the replacing path and stays held on the others.
HandleSendBlocks(blocks) ==
    /\ hpc = "recv"
    /\ chain_lock = "free"
    /\ blocks # <<>>
    /\ event' = [type |-> "SendBlocks", blocks |-> blocks]
    /\ IF Len(blocks) > Len(blockchain.blocks)
       THEN LET v == verify_received(blockchain, blockchain_json, blocks)
            IN  IF v.is_valid_chain
                THEN /\ blockchain' = rebuild_utxo_set(replace_chain(blockchain, blocks))
                     /\ blockchain_json' = save_to_file(blocks)
                     /\ chain_lock' = "free"
                     /\ hpc' = "sb_reconcile"
                ELSE /\ blockchain_json' = v.file
                     /\ chain_lock' = "handler"
                     /\ hpc' = "sb_reset"
                     /\ UNCHANGED blockchain
       ELSE /\ chain_lock' = "handler"
            /\ hpc' = "sb_reset"
            /\ UNCHANGED <<blockchain, blockchain_json>>
    /\ UNCHANGED <<pending_transactions, sync_in_progress, pool_lock, sent, main_vars,
                   network_vars>>

\* main.rs:339-361: every transaction of the received chain leaves the pool
SendBlocksReconcile ==
    /\ hpc = "sb_reconcile"
    /\ pool_lock = "free"
    /\ pending_transactions' =
           retain_unconfirmed(pending_transactions, TxHashes(AllTransactions(event.blocks)))
    /\ hpc' = "sb_reset"
    /\ UNCHANGED <<blockchain, blockchain_json, sync_in_progress, chain_lock, pool_lock,
                   event, sent, main_vars, network_vars>>

\* main.rs:388-390: the guard is reset, the arm ends and drops the chain lock if held
ResetSync ==
    /\ hpc = "sb_reset"
    /\ sync_in_progress' = FALSE
    /\ chain_lock' = IF chain_lock = "handler" THEN "free" ELSE chain_lock
    /\ hpc' = "done"
    /\ UNCHANGED <<blockchain, blockchain_json, pending_transactions, pool_lock, event,
                   sent, main_vars, network_vars>>

\* A handler that does not consult the guard
should_sync_always(guard) == TRUE

\* if !*sync_in_progress, main.rs:414
should_sync(guard) == ~guard

\* PeerConnected, main.rs:397-416 and 431-433
HandlePeerConnected ==
    /\ hpc = "recv"
    /\ event' = [type |-> "PeerConnected"]
    /\ IF should_sync(sync_in_progress)
       THEN sync_in_progress' = TRUE /\ hpc' = "pc_send"
       ELSE sync_in_progress' = sync_in_progress /\ hpc' = "done"
    /\ UNCHANGED <<blockchain, blockchain_json, pending_transactions, chain_lock, pool_lock,
                   sent, main_vars, network_vars>>

\* main.rs:418-430, after the settle delay
PeerConnectedRequestSync ==
    /\ hpc = "pc_send"
    /\ sent' = Append(sent, RequestBlocks)
    /\ hpc' = "done"
    /\ UNCHANGED <<blockchain, blockchain_json, pending_transactions, sync_in_progress,
                   chain_lock, pool_lock, event, main_vars, network_vars>>

\* PeerDisconnected, PeerDiscovered, ConnectTo: main.rs:391-396, 435-437
HandlePeerDisconnected ==
    /\ hpc = "recv"
    /\ event' = [type |-> "PeerDisconnected"]
    /\ hpc' = "done"
    /\ UNCHANGED <<blockchain, blockchain_json, pending_transactions, sync_in_progress,
                   chain_lock, pool_lock, sent, main_vars, network_vars>>

\* while let Some(event) = app_rx.recv().await, main.rs:149
HandlerLoop ==
    /\ hpc = "done"
    /\ hpc' = "recv"
    /\ event' = NoEvent
    /\ sent' = <<>>
    /\ UNCHANGED <<blockchain, blockchain_json, pending_transactions, sync_in_progress,
                   chain_lock, pool_lock, main_vars, network_vars>>


-----------------------------------------------------------------------------
(* The menu task: main.rs:518-760 *)

\* Option 1, main.rs:542-570 and 581-584: the transaction is built from the UTXO index
\* under the chain lock; order is the HashMap's iteration order
CreateTransaction(to_address, amount, order) ==
    /\ mpc = "menu"
    /\ chain_lock = "free"
    /\ Len(pending_transactions) < MaxPool
    /\ LET r == create_transaction(to_address, amount, blockchain.utxo_set, order)
       IN  IF r = <<>>
           THEN created_tx' = <<>> /\ mpc' = "m_done"
           ELSE created_tx' = <<sign_transaction(r[1])>> /\ mpc' = "ct_push"
    /\ UNCHANGED <<blockchain, blockchain_json, pending_transactions, sync_in_progress,
                   chain_lock, pool_lock, handler_vars, network_vars, transactions, broadcast>>

\* main.rs:573
PushTransaction ==
    /\ mpc = "ct_push"
    /\ pool_lock = "free"
    /\ pending_transactions' = Append(pending_transactions, created_tx[1])
    /\ mpc' = "ct_send"
    /\ UNCHANGED <<blockchain, blockchain_json, sync_in_progress, chain_lock, pool_lock,
                   handler_vars, network_vars, transactions, created_tx, broadcast>>

\* main.rs:576
BroadcastTransaction ==
    /\ mpc = "ct_send"
    /\ broadcast' = Append(broadcast, [type |-> "NewTransaction", transaction |-> created_tx[1]])
    /\ mpc' = "m_done"
    /\ UNCHANGED <<blockchain, blockchain_json, pending_transactions, sync_in_progress,
                   chain_lock, pool_lock, handler_vars, network_vars, transactions, created_tx>>

\* main.rs:588-602
coinbase_tx ==
    Transaction_new(<<TxInput(COINBASE_PREV_TX, 0, "mining reward")>>,
                    <<TxOutput(MiningReward, WalletAddress)>>)

\* Option 2, main.rs:586-610
StartMining ==
    /\ mpc = "menu"
    /\ Len(blockchain.blocks) < MaxChain
    /\ transactions' = <<coinbase_tx>>
    /\ mpc' = "mine_check"
    /\ UNCHANGED <<blockchain, blockchain_json, pending_transactions, sync_in_progress,
                   chain_lock, pool_lock, handler_vars, network_vars, created_tx, broadcast>>

\* The condition's guard kept through the loop body, as `while let` would keep it
MineCheckHoldingGuard ==
    /\ mpc = "mine_check"
    /\ pool_lock = "free"
    /\ pool_lock' = "main"
    /\ mpc' = IF pending_transactions # <<>> /\ Len(transactions) - 1 < max_tx_per_block
              THEN "mine_pop" ELSE "mine_add"
    /\ UNCHANGED <<blockchain, blockchain_json, pending_transactions, sync_in_progress,
                   chain_lock, handler_vars, network_vars, transactions, created_tx, broadcast>>

\* A loop condition that does not count the transactions taken
MineCheckUncapped ==
    /\ mpc = "mine_check"
    /\ pool_lock = "free"
    /\ mpc' = IF pending_transactions # <<>> THEN "mine_pop" ELSE "mine_add"
    /\ UNCHANGED <<blockchain, blockchain_json, pending_transactions, sync_in_progress,
                   chain_lock, pool_lock, handler_vars, network_vars, transactions,
                   created_tx, broadcast>>

\* main.rs:612, the loop condition: one lock of the pool
MineCheck ==
    /\ mpc = "mine_check"
    /\ pool_lock = "free"
    /\ mpc' = IF pending_transactions # <<>> /\ Len(transactions) - 1 < max_tx_per_block
              THEN "mine_pop" ELSE "mine_add"
    /\ UNCHANGED <<blockchain, blockchain_json, pending_transactions, sync_in_progress,
                   chain_lock, pool_lock, handler_vars, network_vars, transactions,
                   created_tx, broadcast>>

\* main.rs:613-616, the loop body: another lock of the pool
MinePop ==
    /\ mpc = "mine_pop"
    /\ pool_lock = "free"
    /\ IF pending_transactions # <<>>
       THEN /\ transactions' = Append(transactions, Head(pending_transactions))
            /\ pending_transactions' = Tail(pending_transactions)
       ELSE UNCHANGED <<transactions, pending_transactions>>
    /\ mpc' = "mine_check"
    /\ UNCHANGED <<blockchain, blockchain_json, sync_in_progress, chain_lock, pool_lock,
                   handler_vars, network_vars, created_tx, broadcast>>

\* main.rs:620
MineAddBlock(now) ==
    /\ mpc = "mine_add"
    /\ chain_lock = "free"
    /\ blockchain' = add_block(blockchain, transactions, now)
    /\ blockchain_json' = save_to_file(blockchain'.blocks)
    /\ mpc' = "mine_last"
    /\ UNCHANGED <<pending_transactions, sync_in_progress, chain_lock, pool_lock,
                   handler_vars, network_vars, transactions, created_tx, broadcast>>

\* main.rs:623: the chain lock taken for blocks.last() lives through the send
MineReadLast ==
    /\ mpc = "mine_last"
    /\ chain_lock = "free"
    /\ chain_lock' = "main"
    /\ mpc' = "mine_send"
    /\ UNCHANGED <<blockchain, blockchain_json, pending_transactions, sync_in_progress,
                   pool_lock, handler_vars, network_vars, transactions, created_tx, broadcast>>

\* main.rs:624-627
BroadcastBlock ==
    /\ mpc = "mine_send"
    /\ broadcast' = Append(broadcast, [type |-> "NewBlock", block |-> Last(blockchain.blocks)])
    /\ chain_lock' = "free"
    /\ mpc' = "m_done"
    /\ UNCHANGED <<blockchain, blockchain_json, pending_transactions, sync_in_progress,
                   pool_lock, handler_vars, network_vars, transactions, created_tx>>

\* loop, main.rs:518: back to the menu
MenuLoop ==
    /\ mpc = "m_done"
    /\ mpc' = "menu"
    /\ transactions' = <<>>
    /\ created_tx' = <<>>
    /\ broadcast' = <<>>
    /\ UNCHANGED <<blockchain, blockchain_json, pending_transactions, sync_in_progress,
                   chain_lock, pool_lock, handler_vars, network_vars>>

-----------------------------------------------------------------------------

\* app_rx.recv(), main.rs:149-150: the next event, one of those the network forwards
HandlerReceive(new_blocks, new_transactions, block_lists) ==
    \/ \E block \in new_blocks : HandleNewBlock(block)
    \/ \E tx \in new_transactions : HandleNewTransaction(tx)
    \/ HandleRequestBlocks
    \/ HandleSendBlocksEmpty
    \/ \E blocks \in block_lists : HandleSendBlocks(blocks)
    \/ HandlePeerConnected
    \/ HandlePeerDisconnected

\* The handler resumes after an .await
HandlerStep ==
    \/ NewBlockReconcile
    \/ NewBlockRequestSync
    \/ AdmitValid
    \/ AdmitInvalid
    \/ NewTransactionRequestSync
    \/ SendBlocksResponse
    \/ SendBlocksReconcile
    \/ ResetSync
    \/ PeerConnectedRequestSync
    \/ HandlerLoop

\* Option 1 resumes after an .await
CreateStep ==
    \/ PushTransaction
    \/ BroadcastTransaction

\* Option 2 resumes after an .await
MineStep ==
    \/ MineCheck
    \/ MinePop
    \/ \E now \in Clock : MineAddBlock(now)
    \/ MineReadLast
    \/ BroadcastBlock

\* The menu task waits in read_line (main.rs:539); the handler waits in recv
\* (main.rs:149) or has ended
MenuIdle == mpc = "menu"
HandlerIdle == hpc \in {"recv", "returned"}

\* Events and commands arrive while the other task is between operations
Next ==
    \/ MenuIdle /\ \E block \in RemoteBlocks(blockchain) : HandleNewBlock(block)
    \/ MenuIdle /\ \E tx \in RemoteTransactions : HandleNewTransaction(tx)
    \/ MenuIdle /\ HandleRequestBlocks
    \/ MenuIdle /\ HandleSendBlocksEmpty
    \/ MenuIdle /\ \E blocks \in RemoteChains(blockchain) : HandleSendBlocks(blocks)
    \/ MenuIdle /\ HandlePeerConnected
    \/ MenuIdle /\ HandlePeerDisconnected
    \/ HandlerStep
    \/ HandlerIdle /\ \E to_address \in Recipients, amount \in Amounts,
                         order \in IterationOrders(DOMAIN blockchain.utxo_set) :
                             CreateTransaction(to_address, amount, order)
    \/ HandlerIdle /\ StartMining
    \/ CreateStep
    \/ MineStep
    \/ MenuLoop

Spec == Init /\ [][Next]_vars

\* A peer's own chain of two blocks on our first block
PeerBranch(bc, now) ==
    Extend(Extend(<<bc.blocks[1]>>, <<PeerCoinbase>>, now), <<PeerCoinbase>>, now)

\* The inputs of the interleaved runs: one valid and one unmined block for NewBlock;
\* our chain extended by one block or cut to its first block, or a peer's own chain,
\* for SendBlocks
ConcurrentBlocks(bc) ==
    {PeerBlock(calculate_hash(Last(bc.blocks)), <<PeerCoinbase>>, now, how) :
        now \in Clock, how \in {"mined", "unmined"}}

\* Blocks on our tip whose header declares difficulty 0
EasyBlocks(bc) == {EasyBlock(calculate_hash(Last(bc.blocks)), now) : now \in Clock}

ConcurrentChains(bc) ==
    {c \in {<<bc.blocks[1]>>} \cup {Extend(bc.blocks, <<PeerCoinbase>>, now) : now \in Clock}
            \cup {PeerBranch(bc, now) : now \in Clock} :
        Len(c) <= MaxChain}

\* The two tasks run on the multi-threaded runtime (#[tokio::main], main.rs:53): each
\* proceeds from one .await to the next at any time.  The user mines (option 2) while
\* events arrive.
NextConcurrent ==
    \/ HandlerReceive(ConcurrentBlocks(blockchain) \cup EasyBlocks(blockchain),
                      RemoteTransactions, ConcurrentChains(blockchain))
    \/ HandlerStep
    \/ StartMining
    \/ MineStep
    \/ MenuLoop

SpecConcurrent == Init /\ [][NextConcurrent]_vars

-----------------------------------------------------------------------------
(* Properties *)

\* The chain made of a block list, its index rebuilt from scratch
ChainOf(blocks) ==
    [blocks |-> blocks, utxo_set |-> update_utxo_set(blocks), difficulty |-> Difficulty]

\* blocks re-validates block by block from its own first block: the first block has
\* prev_hash "0", every later block passes validate_block (proof of work, prev_hash
\* link, every transaction) against the blocks before it
RevalidatesFromGenesis(blocks) ==
    /\ blocks # <<>>
    /\ blocks[1].header.prev_hash = ZERO_PREV_HASH
    /\ \A i \in 2..Len(blocks) : validate_block(ChainOf(SubSeq(blocks, 1, i - 1)), blocks[i])

\* The handler takes a SendBlocks event and decides on the candidate
SendBlocksDecision == hpc = "recv" /\ hpc' # "recv" /\ event'.type = "SendBlocks"

\* C1: handling SendBlocks(candidate) replaces the local chain by the candidate if and
\* only if the candidate is strictly longer than the local chain and re-validates
\* block by block from its genesis; in every other case the local chain is unchanged.
C1_ReplaceIffLongerAndValid ==
    [][SendBlocksDecision =>
          IF /\ Len(event'.blocks) > Len(blockchain.blocks)
             /\ RevalidatesFromGenesis(event'.blocks)
          THEN blockchain'.blocks = event'.blocks
          ELSE blockchain'.blocks = blockchain.blocks]_vars

\* The handler takes a NewBlock event and decides on the block; the menu task appends
\* the block it has assembled
NewBlockDecision == hpc = "recv" /\ hpc' # "recv" /\ event'.type = "NewBlock"
LocalAppend == mpc = "mine_add" /\ mpc' = "mine_last"

\* C2: every single-block append (add_block for a locally mined block, the NewBlock
\* handler for a remote one) pushes the block only if it passes validate_block against
\* the current tip and UTXO index; when validation fails, the chain, the UTXO index
\* and the snapshot are unchanged.
C2_AppendOnlyIfValid ==
    [][/\ (NewBlockDecision \/ LocalAppend) /\ blockchain'.blocks # blockchain.blocks
            => validate_block(blockchain, Last(blockchain'.blocks))
       /\ NewBlockDecision /\ ~validate_block(blockchain, event'.block)
            => UNCHANGED <<blockchain, blockchain_json>>]_vars

\* Positions of the transactions of a chain, in chain order
TxPositions(blocks) == DOMAIN AllTransactions(blocks)

\* The transaction at position p has hash h and an output with index i
CreatesAt(blocks, p, h, i) ==
    LET tx == AllTransactions(blocks)[p]
    IN  calculate_tx_hash(tx) = h /\ (i + 1) \in DOMAIN tx.outputs

\* The transaction at position p has a non-coinbase input that references (h, i)
ConsumesAt(blocks, p, h, i) ==
    LET tx == AllTransactions(blocks)[p]
    IN  \E n \in DOMAIN tx.inputs :
            /\ tx.inputs[n].prev_tx # COINBASE_PREV_TX
            /\ tx.inputs[n].prev_tx = h
            /\ tx.inputs[n].prev_index = i

\* The index has an entry for output i of the transaction with hash h
InIndex(utxo_set, h, i) ==
    h \in DOMAIN utxo_set /\ \E j \in DOMAIN utxo_set[h] : utxo_set[h][j][1] = i

\* The outputs (h, i) that a chain creates or that the index names
OutputRefs(blocks, utxo_set) ==
    LET txs == AllTransactions(blocks)
    IN  UNION {{<<calculate_tx_hash(txs[p]), n - 1>> : n \in DOMAIN txs[p].outputs} :
                  p \in DOMAIN txs}
        \cup UNION {{<<h, utxo_set[h][j][1]>> : j \in DOMAIN utxo_set[h]} :
                       h \in DOMAIN utxo_set}

\* C3: after any rebuild, the UTXO index contains an entry (tx, i) if and only if
\* output i of tx was created by some block of the current chain and no later
\* transaction of the chain consumes it through a non-coinbase input referencing
\* (tx, i).  "Later" is read in chain order, transaction by transaction.
C3_IndexIffCreatedAndUnspent ==
    \A ref \in OutputRefs(blockchain.blocks, blockchain.utxo_set) :
        InIndex(blockchain.utxo_set, ref[1], ref[2])
        <=> \E p \in TxPositions(blockchain.blocks) :
                /\ CreatesAt(blockchain.blocks, p, ref[1], ref[2])
                /\ \A q \in TxPositions(blockchain.blocks) :
                       q > p => ~ConsumesAt(blockchain.blocks, q, ref[1], ref[2])

\* C4: whenever the chain's exclusive scope is released (after Blockchain::new,
\* add_block, add_received_block, a SendBlocks replacement or load_from_file), the
\* UTXO index equals the index rebuilt from scratch from the current block list.
C4_IndexIsRebuildOfChain ==
    /\ chain_lock = "free" => blockchain.utxo_set = update_utxo_set(blockchain.blocks)
    /\ \A loaded \in Range(load_from_file(blockchain_json)) :
           loaded.utxo_set = update_utxo_set(loaded.blocks)

\* C4 witness: the handler has replaced the chain by a received one and released the
\* chain lock
C4_ReplacedAndReleased ==
    /\ hpc = "sb_reconcile"
    /\ chain_lock = "free"
    /\ blockchain.blocks = event.blocks
    /\ blockchain_json = save_to_file(event.blocks)

\* The inputs of a chain, as <<position of the transaction, number of the input>>
InputPositions(blocks) ==
    LET txs == AllTransactions(blocks)
    IN  UNION {{<<p, n>> : n \in DOMAIN txs[p].inputs} : p \in DOMAIN txs}

\* How many transactions of the chain create output ref, how many non-coinbase inputs
\* consume it
CreatedCount(blocks, ref) ==
    Cardinality({p \in TxPositions(blocks) : CreatesAt(blocks, p, ref[1], ref[2])})

ConsumedCount(blocks, ref) ==
    LET txs == AllTransactions(blocks)
    IN  Cardinality({x \in InputPositions(blocks) :
                        /\ txs[x[1]].inputs[x[2]].prev_tx # COINBASE_PREV_TX
                        /\ txs[x[1]].inputs[x[2]].prev_tx = ref[1]
                        /\ txs[x[1]].inputs[x[2]].prev_index = ref[2]})

\* The value of a created output
ValueOf(blocks, ref) ==
    LET txs == AllTransactions(blocks)
        p == CHOOSE q \in DOMAIN txs : CreatesAt(blocks, q, ref[1], ref[2])
    IN  txs[p].outputs[ref[2] + 1].value

\* The outputs a chain created, each as often as it was created
CreatedOutputs(blocks) ==
    [ref \in {r \in OutputRefs(blocks, EmptyMap) : CreatedCount(blocks, r) > 0}
        |-> CreatedCount(blocks, ref)]

\* The created outputs that inputs consumed, each as often as it was consumed, and
\* no more often than it was created
ConsumedOutputs(blocks) ==
    LET min(a, b) == IF a < b THEN a ELSE b
    IN  [ref \in {r \in OutputRefs(blocks, EmptyMap) :
                     CreatedCount(blocks, r) > 0 /\ ConsumedCount(blocks, r) > 0}
            |-> min(ConsumedCount(blocks, ref), CreatedCount(blocks, ref))]

\* The multiset of values of the entries of an index
IndexValues(utxo_set) ==
    LET entries == UNION {{<<h, j>> : j \in DOMAIN utxo_set[h]} : h \in DOMAIN utxo_set}
    IN  BagOfAll(LAMBDA e : utxo_set[e[1]][e[2]][2], SetToBag(entries))

\* C5: for any chain, also one in which two transactions have the same hash, the
\* multiset of unspent output values in the rebuilt UTXO index equals the multiset of
\* all outputs the chain created minus the outputs consumed by non-coinbase inputs.
C5_ValueConserved ==
    IndexValues(update_utxo_set(blockchain.blocks))
    = BagOfAll(LAMBDA ref : ValueOf(blockchain.blocks, ref),
               CreatedOutputs(blockchain.blocks) (-) ConsumedOutputs(blockchain.blocks))

\* The pool holds a transaction with the hash of tx
HashInPool(pool, tx) ==
    \E i \in DOMAIN pool : tx_calculate_hash(pool[i]) = tx_calculate_hash(tx)

\* C6: after any block containing transaction T is accepted into the local chain (by
\* the NewBlock handler, by a successful SendBlocks replacement or by local mining),
\* T is absent from the Pending Pool once that operation has completed.
C6_AcceptedLeavesPool ==
    [][/\ hpc = "nb_reconcile" /\ hpc' = "done"
            => \A tx \in Range(event.block.transactions) :
                   ~HashInPool(pending_transactions', tx)
       /\ hpc = "sb_reset" /\ hpc' = "done" /\ chain_lock # "handler"
            => \A tx \in Range(AllTransactions(event.blocks)) :
                   ~HashInPool(pending_transactions', tx)
       /\ mpc = "mine_send" /\ mpc' = "m_done"
            => \A tx \in Range(transactions) :
                   ~HashInPool(pending_transactions', tx)]_vars

\* C7: after any sequence of transaction admissions (remote NewTransaction events and
\* locally created transactions), the Pending Pool never holds two transactions with
\* the same hash.
C7_PoolHashesDistinct ==
    \A i, j \in DOMAIN pending_transactions :
        tx_calculate_hash(pending_transactions[i]) = tx_calculate_hash(pending_transactions[j])
            => i = j

\* C8: in every state between operations, no pooled transaction has the hash of a
\* transaction that is in a block of the local chain.
C8_PoolDisjointFromChain ==
    HandlerIdle /\ MenuIdle
        => \A i \in DOMAIN pending_transactions :
               tx_calculate_hash(pending_transactions[i])
                   \notin TxHashes(AllTransactions(blockchain.blocks))

C10_PeerConnectedGuarded ==
    [][/\ hpc = "recv" /\ hpc' # "recv" /\ event'.type = "PeerConnected" /\ ~sync_in_progress
            => sync_in_progress' /\ sent' = <<>> /\ hpc' = "pc_send"
       /\ hpc = "pc_send" /\ hpc' # "pc_send"
            => /\ sent = <<>> /\ sent' = <<RequestBlocks>> /\ hpc' = "done"
               /\ sync_in_progress /\ sync_in_progress'
       /\ hpc = "recv" /\ hpc' # "recv" /\ event'.type = "PeerConnected" /\ sync_in_progress
            => /\ hpc' = "done" /\ sent' = <<>>
               /\ UNCHANGED <<sync_in_progress, blockchain, pending_transactions>>
       /\ hpc = "done" /\ event.type = "PeerConnected"
            => UNCHANGED sync_in_progress /\ sent \in {<<>>, <<RequestBlocks>>}]_vars

\* C10 witness: a PeerConnected was handled while a sync was in flight, after an
\* earlier one had set the guard: nothing was emitted
C10_SkippedWhileInFlight ==
    hpc = "done" /\ event.type = "PeerConnected" /\ sent = <<>> /\ sync_in_progress


-----------------------------------------------------------------------------
(* Lock discipline of the handler task *)

\* The handler is suspended at pending_tx_for_network.lock().await
AwaitsPoolLock == hpc \in {"nb_reconcile", "nt_admit_valid", "nt_admit_invalid", "sb_reconcile"}

\* The handler is suspended at sync_state_for_task.lock().await
AwaitsSyncLock == hpc = "sb_reset"

\* The handler is suspended at network_tx_for_network.send(..).await
AwaitsSend == hpc \in {"nb_request", "nt_request", "rb_send", "pc_send"}

HandlerHoldsLock == chain_lock = "handler" \/ pool_lock = "handler"

\* C11: whenever the handler awaits a further lock or a channel send, it holds neither
\* the chain lock nor the pool lock.
C11_NoLockHeldAcrossAwait ==
    (AwaitsPoolLock \/ AwaitsSyncLock \/ AwaitsSend) => ~HandlerHoldsLock


-----------------------------------------------------------------------------
(* Both tasks interleaved, with transaction creation, under fair scheduling *)

MaxLiveChain == 2
MaxLivePool == 1

LiveChains(bc) == {c \in ConcurrentChains(bc) : Len(c) <= MaxLiveChain}

\* Every handler arm, option 1 and option 2, each proceeding from one .await to the
\* next at any time
NextLive ==
    \/ /\ Len(blockchain.blocks) < MaxLiveChain
       /\ \E block \in ConcurrentBlocks(blockchain) : HandleNewBlock(block)
    \/ /\ Len(pending_transactions) < MaxLivePool
       /\ \E tx \in RemoteTransactions : HandleNewTransaction(tx)
    \/ HandleRequestBlocks
    \/ HandleSendBlocksEmpty
    \/ \E blocks \in LiveChains(blockchain) : HandleSendBlocks(blocks)
    \/ HandlePeerConnected
    \/ HandlePeerDisconnected
    \/ HandlerStep
    \/ /\ Len(pending_transactions) < MaxLivePool
       /\ \E to_address \in Recipients,
             order \in IterationOrders(DOMAIN blockchain.utxo_set) :
                 CreateTransaction(to_address, MiningReward, order)
    \/ Len(blockchain.blocks) < MaxLiveChain /\ StartMining
    \/ CreateStep
    \/ MineStep
    \/ MenuLoop

\* The step of blockchain.lock().await.add_block(..) (main.rs:620) seen on the menu
\* task's position: MineAddBlock is the only step from mine_add to mine_last, and it
\* is enabled exactly when the chain lock is free
MineAddGranted == mpc = "mine_add" /\ chain_lock = "free" /\ mpc' = "mine_last"

\* The runtime keeps running a task that can run (weak fairness of its steps).
\* tokio::sync::Mutex grants the lock in the order it was requested, so a task that
\* waits for a lock which is released again and again gets it (strong fairness of the
\* menu task's lock acquisitions; the handler's waits are for the pool lock, which the
\* menu task never holds across an .await).  Channel sends complete.
Fairness ==
    /\ WF_vars(HandlerStep)
    /\ SF_vars(CreateStep)
    /\ SF_vars(MineCheck)
    /\ SF_vars(MinePop)
    /\ SF_mpc(MineAddGranted)
    /\ SF_vars(MineReadLast)
    /\ WF_vars(BroadcastBlock)

SpecLive == Init /\ [][NextLive]_vars /\ Fairness

HandlerAtRest == hpc \in {"recv", "done", "returned"}
MenuAtRest == mpc \in {"menu", "m_done"}

-----------------------------------------------------------------------------
(* Replacement against local append *)

\* The SendBlocks step that replaces the chain (main.rs:289-337, one critical section)
SendBlocksReplaces == hpc = "recv" /\ hpc' = "sb_reconcile"

\* The step of option 2 that pushes the mined block (main.rs:620)
MinePushes == mpc = "mine_add" /\ mpc' = "mine_last"

\* C13: with mining interleaved, a step that replaces the chain installs a candidate
\* strictly longer than the chain of that moment, and a step that pushes a locally
\* mined block appends one block whose prev_hash is the hash of the tip of that moment.
C13_ReplaceAtomicWithAppend ==
    [][/\ SendBlocksReplaces =>
            /\ blockchain'.blocks = event'.blocks
            /\ Len(blockchain'.blocks) > Len(blockchain.blocks)
       /\ MinePushes =>
            /\ blockchain'.blocks = Append(blockchain.blocks, Last(blockchain'.blocks))
            /\ Last(blockchain'.blocks).header.prev_hash =
                   calculate_hash(Last(blockchain.blocks))]_vars

\* The chain has just been replaced while option 2 is about to push its block
C13_ReplacedBeforePush == hpc = "sb_reconcile" /\ mpc = "mine_add"


-----------------------------------------------------------------------------
(* The validator and the miner as functions *)

ProbeDifficulties == 0..3

\* A chain without blocks: validate_block's else branch (blockchain.rs:261)
EmptyChain == [blocks |-> <<>>, utxo_set |-> EmptyMap, difficulty |-> Difficulty]

\* Blocks as Block::new leaves them (nonce 0), on the tip of bc, on its first block or
\* with prev_hash "0", at every difficulty
FreshBlocks(bc) ==
    {[Block_new(prev_hash, difficulty, now) EXCEPT !.transactions = body] :
        prev_hash \in {calculate_hash(Last(bc.blocks)),
                       calculate_hash(bc.blocks[1]), ZERO_PREV_HASH},
        difficulty \in ProbeDifficulties,
        now \in Clock,
        body \in RemoteBlockBodies}

\* Blocks handed to validate_block next to the chain bc: unmined, mined, or with a
\* nonce past a hit
ProbeBlocks(bc) ==
    FreshBlocks(bc)
    \cup {mine(b) : b \in FreshBlocks(bc)}
    \cup {WithNonce(mine(b), mine(b).header.nonce + 1) : b \in FreshBlocks(bc)}

\* First blocks handed to validate_block on the empty chain
ProbeFirstBlocks ==
    {create_genesis_block(difficulty) : difficulty \in ProbeDifficulties}
    \cup {ForgedGenesis, mine(ForgedGenesis)}
    \cup {PeerBlock(calculate_hash(ForgedGenesis), <<PeerCoinbase>>, now, "mined") :
            now \in Clock}

\* (a) proof of work at the declared difficulty, (b) link to the tip, (c) transactions
ValidateBlockContract(bc, block) ==
    validate_block(bc, block) <=>
        /\ LeadingZeros(block) >= block.header.difficulty
        /\ block.header.prev_hash =
               (IF bc.blocks = <<>> THEN ZERO_PREV_HASH ELSE calculate_hash(Last(bc.blocks)))
        /\ \A tx \in Range(block.transactions) : validate_transaction(bc, tx)

\* C14: against every reachable chain and against the empty chain, validate_block
\* accepts a block exactly when its hash has at least as many leading '0' characters
\* as its header's difficulty (any hash at difficulty 0), its prev_hash is the hash of
\* the tip ("0" on the empty chain), and each of its transactions passes
\* validate_transaction.
C14_ValidateBlockContract ==
    /\ \A block \in ProbeBlocks(blockchain) : ValidateBlockContract(blockchain, block)
    /\ \A block \in ProbeFirstBlocks : ValidateBlockContract(EmptyChain, block)

\* The handler has accepted a block that carries a transfer, and an unmined block of
\* difficulty 0 on the tip would be accepted as well
C14_AcceptedAndEasyBlock ==
    /\ hpc = "nb_reconcile"
    /\ Len(event.block.transactions) > 1
    /\ \E block \in ProbeBlocks(blockchain) :
           /\ block.header.difficulty = 0
           /\ block.header.nonce = 0
           /\ validate_block(blockchain, block)


\* Transactions handed to validate_transaction next to the index utxo_set: the peers'
\* and the pooled ones, a transaction without inputs, and for every indexed
\* transaction (and for the peer's reward, indexed or not) a spend of its output 0, of
\* its output 1 and of an output next to a coinbase input
ProbeTransactions(utxo_set, pool) ==
    LET keys == DOMAIN utxo_set \cup {calculate_tx_hash(PeerCoinbase)}
        spend(h, i) == Transaction_new(<<TxInput(h, i, "signature")>>,
                                       <<TxOutput(MiningReward, "bob_address")>>)
        mixed(h, i) == Transaction_new(<<TxInput(COINBASE_PREV_TX, 0, "mining reward"),
                                         TxInput(h, i, "signature")>>,
                                       <<TxOutput(MiningReward, "bob_address")>>)
    IN  {PeerCoinbase, PeerTransfer, PeerSpendReward, GenesisCoinbase,
         Transaction_new(<<>>, <<TxOutput(MiningReward, "bob_address")>>)}
        \cup Range(pool)
        \cup {spend(h, i) : h \in keys, i \in 0..1}
        \cup {mixed(h, i) : h \in keys, i \in 0..1}

\* The same transaction with another signature on every input
Resigned(tx) ==
    [tx EXCEPT !.inputs = [i \in DOMAIN tx.inputs |->
                              [tx.inputs[i] EXCEPT !.script_sig = "forged"]]]

\* The same transaction paying out more than any input is worth
Inflated(tx) ==
    [tx EXCEPT !.outputs = Append(tx.outputs, TxOutput(1000000, "peer_address"))]

\* C15: against every reachable index, validate_transaction accepts a transaction
\* exactly when each input whose prev_tx is not the coinbase sentinel names an output
\* the index holds; another signature or other output values do not change the answer.
C15_ValidateTransactionContract ==
    \A tx \in ProbeTransactions(blockchain.utxo_set, pending_transactions) :
        /\ validate_transaction(blockchain, tx) <=>
               \A i \in DOMAIN tx.inputs :
                   tx.inputs[i].prev_tx # COINBASE_PREV_TX
                       => InIndex(blockchain.utxo_set, tx.inputs[i].prev_tx,
                                  tx.inputs[i].prev_index)
        /\ validate_transaction(blockchain, Resigned(tx)) =
               validate_transaction(blockchain, tx)
        /\ validate_transaction(blockchain, Inflated(tx)) =
               validate_transaction(blockchain, tx)

\* The handler has validated a transfer that spends an indexed output, while some
\* probe names an output the index does not hold under a transaction it does hold
C15_TransferValidated ==
    /\ hpc = "nt_admit_valid"
    /\ event.transaction.inputs[1].prev_tx # COINBASE_PREV_TX
    /\ \E h \in DOMAIN blockchain.utxo_set : ~InIndex(blockchain.utxo_set, h, 1)


\* Blocks handed to Block::mine: fresh ones, and ones whose nonce is already counted up
ProbeMineInputs(bc) ==
    FreshBlocks(bc) \cup {WithNonce(b, 7) : b \in FreshBlocks(bc)}

\* C16: Block::mine returns the block it was given with the nonce counted up by at
\* most max_iterations (1,000,000), and the returned block either passes is_valid or
\* has had all max_iterations increments.
C16_MineBounded ==
    \A block \in ProbeMineInputs(blockchain) :
        LET mined == mine(block)
            iterations == mined.header.nonce - block.header.nonce
        IN  /\ mined = WithNonce(block, mined.header.nonce)
            /\ iterations \in 0..max_iterations
            /\ is_valid(mined) \/ iterations = max_iterations

\* Option 2 has mined and pushed a block, and some block at hand exhausts the ceiling
C16_MinedAndExhausted ==
    /\ mpc = "mine_last"
    /\ is_valid(Last(blockchain.blocks))
    /\ \E block \in ProbeMineInputs(blockchain) :
           /\ ~is_valid(mine(block))
           /\ mine(block).header.nonce = block.header.nonce + max_iterations


MaxProbeClock == 3

\* Utc::now() at the moment Block::new runs
ProbeClock == {GenesisTimestamp + c : c \in 1..MaxProbeClock}

\* Block::new(prev_hash, difficulty) on the tip of bc with one transaction pushed,
\* difficulty >= 1
FreshOneTransactionBlocks(bc) ==
    {[Block_new(calculate_hash(Last(bc.blocks)), difficulty, now)
         EXCEPT !.transactions = <<tx>>] :
        difficulty \in ProbeDifficulties \ {0},
        now \in ProbeClock,
        tx \in {coinbase_tx, PeerCoinbase}}

-----------------------------------------------------------------------------
(* The genesis block *)

\* C18: the first block of Blockchain::new(difficulty) has prev_hash "0" and one
\* coinbase transaction with one output of value 100 to the fixed address, and for
\* every difficulty argument its hash is the hash of the first block of the chain this
\* node constructed.
C18_GenesisHashIndependentOfDifficulty ==
    \A difficulty \in ProbeDifficulties :
        LET genesis == Blockchain_new(difficulty).blocks[1]
            ours == Blockchain_new(blockchain.difficulty).blocks[1]
        IN  /\ Len(Blockchain_new(difficulty).blocks) = 1
            /\ genesis.header.prev_hash = ZERO_PREV_HASH
            /\ Len(genesis.transactions) = 1
            /\ genesis.transactions[1].inputs[1].prev_tx = COINBASE_PREV_TX
            /\ genesis.transactions[1].outputs = <<TxOutput(GenesisReward, "genesis_address")>>
            /\ calculate_hash(genesis) = calculate_hash(ours)

\* C19: in every reachable state the first block of the local chain is the genesis
\* block the node was constructed with.
C19_FirstBlockIsGenesis ==
    blockchain.blocks[1] = create_genesis_block(blockchain.difficulty)


-----------------------------------------------------------------------------
(* SendBlocks that does not replace *)

\* The candidate is shorter than the local chain, as long as it, or longer but not
\* accepted by the handler's verification (main.rs:295, 303-323)
NotReplacing(bc, file, blocks) ==
    \/ Len(blocks) <= Len(bc.blocks)
    \/ ~verify_received(bc, file, blocks).is_valid_chain

\* C20: the step that takes a SendBlocks event whose candidate is shorter, of equal
\* length, or longer but failing the verification leaves the chain, the UTXO index and
\* the pool as they are, and so does the step that ends the arm by resetting the guard.
C20_RejectedCandidateChangesNothing ==
    [][/\ (SendBlocksDecision /\ NotReplacing(blockchain, blockchain_json, event'.blocks))
            => UNCHANGED <<blockchain, pending_transactions>>
       /\ (hpc = "sb_reset" /\ hpc' = "done")
            => UNCHANGED <<blockchain, pending_transactions>>]_vars

\* A longer candidate has just been turned down while the pool holds a transaction
C20_LongerCandidateRejected ==
    /\ hpc = "sb_reset"
    /\ event.type = "SendBlocks"
    /\ Len(event.blocks) > Len(blockchain.blocks)
    /\ pending_transactions # <<>>

-----------------------------------------------------------------------------
(* The handler's arms, one event at a time *)

\* The handler takes its next step
HandlerLeaves(pc) == hpc = pc /\ hpc' # pc

\* What the handler owns of the node's state, but for the snapshot file
NodeState == <<blockchain, pending_transactions, sync_in_progress>>

\* C21: when a NewBlock event carries a block that fails validate_block, the handler
\* emits exactly one RequestBlocks and leaves the chain, the UTXO index, the pending
\* pool and the sync guard unchanged.
C21_InvalidBlockOnlyRequests ==
    [][/\ NewBlockDecision
            => /\ sent' = <<>>
               /\ (hpc' = "nb_request" <=> ~validate_block(blockchain, event'.block))
       /\ NewBlockDecision /\ ~validate_block(blockchain, event'.block)
            => UNCHANGED NodeState
       /\ HandlerLeaves("nb_request")
            => /\ sent' = <<RequestBlocks>>
               /\ hpc' = "done"
               /\ UNCHANGED NodeState]_vars

\* C21 witness: an unmined block was announced, and the arm has ended with its one
\* request
C21_RequestedAfterInvalidBlock ==
    /\ hpc = "done"
    /\ event.type = "NewBlock"
    /\ ~is_valid(event.block)
    /\ sent = <<RequestBlocks>>
    /\ Last(blockchain.blocks) # event.block

\* The handler takes a NewTransaction event and validates the transaction
NewTransactionDecision == hpc = "recv" /\ hpc' # "recv" /\ event'.type = "NewTransaction"

\* Pool.admit: at the back, unless a transaction with the same hash is pooled
Admitted(pool, tx) == IF is_duplicate(pool, tx) THEN pool ELSE Append(pool, tx)

\* C22: after handling NewTransaction(tx) the pool contains tx whether or not it
\* validated (appended at the back unless a transaction with the same hash was
\* already pooled); a RequestBlocks is emitted if and only if validate_transaction(tx)
\* failed, and the chain is unchanged in both cases.
C22_AdmittedEitherWay ==
    [][/\ NewTransactionDecision
            => /\ sent' = <<>>
               /\ hpc' = IF validate_transaction(blockchain, event'.transaction)
                         THEN "nt_admit_valid" ELSE "nt_admit_invalid"
               /\ UNCHANGED <<blockchain, pending_transactions>>
       /\ HandlerLeaves("nt_admit_valid")
            => /\ pending_transactions' = Admitted(pending_transactions, event.transaction)
               /\ hpc' = "done"
               /\ UNCHANGED <<blockchain, sent>>
       /\ HandlerLeaves("nt_admit_invalid")
            => /\ pending_transactions' = Admitted(pending_transactions, event.transaction)
               /\ hpc' = "nt_request"
               /\ UNCHANGED <<blockchain, sent>>
       /\ HandlerLeaves("nt_request")
            => /\ sent' = <<RequestBlocks>>
               /\ hpc' = "done"
               /\ UNCHANGED <<blockchain, pending_transactions>>
       /\ hpc' = "done" /\ event'.type = "NewTransaction"
            => event'.transaction \in Range(pending_transactions')]_vars

\* C22 witness: a transaction that failed validation is at the back of the pool and the
\* arm has ended with its request
C22_InvalidAdmittedAndRequested ==
    /\ hpc = "done"
    /\ event.type = "NewTransaction"
    /\ ~validate_transaction(blockchain, event.transaction)
    /\ pending_transactions # <<>>
    /\ Last(pending_transactions) = event.transaction
    /\ sent = <<RequestBlocks>>

\* The handler takes a RequestBlocks event and clones the chain
RequestBlocksDecision == hpc = "recv" /\ hpc' # "recv" /\ event'.type = "RequestBlocks"

\* C23: handling RequestBlocks emits exactly one SendBlocks carrying the complete local
\* chain as it stood when the handler read it, and changes neither the chain, the UTXO
\* index, the pool nor the sync guard.
C23_AnswersWithSnapshot ==
    [][/\ RequestBlocksDecision
            => /\ event'.blocks_to_send = blockchain.blocks
               /\ sent' = <<>>
               /\ hpc' = "rb_send"
               /\ UNCHANGED NodeState
       /\ HandlerLeaves("rb_send")
            => /\ sent' = <<[type |-> "SendBlocks", blocks |-> event.blocks_to_send]>>
               /\ hpc' = "done"
               /\ UNCHANGED <<NodeState, event>>]_vars

\* C23 witness: the answer has been sent, and it is the chain as read, which a block
\* mined in between has since outgrown
C23_AnsweredWhileMining ==
    /\ hpc = "done"
    /\ event.type = "RequestBlocks"
    /\ sent = <<[type |-> "SendBlocks", blocks |-> event.blocks_to_send]>>
    /\ Len(blockchain.blocks) > Len(event.blocks_to_send)

-----------------------------------------------------------------------------
(* The chain and its index *)

\* C24: for every block at index i >= 1 of the local chain, in every reachable state,
\* header.prev_hash equals the hash of the block at index i-1.
C24_EveryBlockLinked ==
    \A i \in 2..Len(blockchain.blocks) :
        blockchain.blocks[i].header.prev_hash = calculate_hash(blockchain.blocks[i - 1])

\* C24 witness: a chain of three blocks, the second announced by a peer, the third
\* mined here
C24_PeerBlockThenMined ==
    /\ Len(blockchain.blocks) = 3
    /\ blockchain.blocks[2].transactions[1] = PeerCoinbase
    /\ blockchain.blocks[3].transactions[1] = coinbase_tx

\* A transaction that spends the genesis output and creates nothing
PeerBurn ==
    Transaction_new(
        <<TxInput(calculate_tx_hash(GenesisCoinbase), 0, "peer_address:signature")>>, <<>>)

\* Block lists the index may be rebuilt from: the chain, and the chain with a block
\* that only spends
RebuildInputs(bc) ==
    {bc.blocks} \cup {Extend(bc.blocks, <<PeerCoinbase, PeerBurn>>, now) : now \in Clock}

\* Some non-coinbase input among inputs references output i of transaction h
SpentBy(inputs, h, i) ==
    \E n \in DOMAIN inputs :
        /\ inputs[n].prev_tx # COINBASE_PREV_TX
        /\ inputs[n].prev_tx = h
        /\ inputs[n].prev_index = i

\* The chain holds a transaction with hash h, and each of its outputs is referenced
\* by an input of the chain
AllOutputsSpent(blocks, h) ==
    LET txs == AllTransactions(blocks)
        inputs == AllInputs(txs)
    IN  \E p \in DOMAIN txs :
            /\ calculate_tx_hash(txs[p]) = h
            /\ \A i \in DOMAIN txs[p].outputs : SpentBy(inputs, h, i - 1)

\* The index has no empty entry, names only outputs that no input of the chain
\* references, and has no key for a transaction whose outputs are all spent
NoEmptyEntry(blocks, utxo_set) ==
    LET txs == AllTransactions(blocks)
        inputs == AllInputs(txs)
    IN  /\ \A h \in DOMAIN utxo_set : utxo_set[h] # <<>>
        /\ \A h \in DOMAIN utxo_set :
               \A j \in DOMAIN utxo_set[h] : ~SpentBy(inputs, h, utxo_set[h][j][1])
        /\ \A p \in DOMAIN txs :
               LET h == calculate_tx_hash(txs[p])
               IN  (\A i \in DOMAIN txs[p].outputs : SpentBy(inputs, h, i - 1))
                       => h \notin DOMAIN utxo_set

PreviousIndexes(bc) ==
    {EmptyMap, bc.utxo_set, Blockchain_new(bc.difficulty).utxo_set,
     update_utxo_set(SubSeq(bc.blocks, 1, Len(bc.blocks) - 1))}

\* C26: rebuilding the UTXO index twice from the same chain yields the same index:
\* rebuild_utxo_set is idempotent and its result depends only on the block list, not on
\* the previous index contents.
C26_RebuildIdempotent ==
    LET once == rebuild_utxo_set(blockchain)
    IN  /\ rebuild_utxo_set(once) = once
        /\ \A u \in PreviousIndexes(blockchain) :
               rebuild_utxo_set([blockchain EXCEPT !.utxo_set = u]) = once

\* C26 witness: the handler has installed a received chain over an index that was built
\* from another block list, and rebuilt it
C26_RebuiltOverStaleIndex ==
    /\ hpc = "sb_reconcile"
    /\ blockchain.blocks = event.blocks
    /\ Len(blockchain.blocks) = 3
    /\ blockchain.utxo_set = rebuild_utxo_set(blockchain).utxo_set
    /\ blockchain.utxo_set \notin
           {update_utxo_set(SubSeq(blockchain.blocks, 1, k)) : k \in 1..2}

-----------------------------------------------------------------------------
(* The wallet *)

\* A peer's reward with outputs of its own choosing (no rule of the validator bounds a
\* coinbase output): one just short of the word size, one of 600
PeerJackpot ==
    Transaction_new(<<TxInput(COINBASE_PREV_TX, 0, "mining reward")>>,
                    <<TxOutput(U64Modulus - GenesisReward, "peer_address"),
                      TxOutput(600, "peer_address")>>)

\* UTXO views create_transaction may be given: the node's index, the index after a
\* peer's block with one more reward, and after a peer's block with PeerJackpot
ProbeViews(bc) ==
    {bc.utxo_set}
    \cup {update_utxo_set(Extend(bc.blocks, body, now)) :
             body \in {<<PeerCoinbase>>, <<PeerJackpot>>}, now \in Clock}

ProbeAmounts == Amounts \cup {70, GenesisReward}

\* C27: whenever create_transaction(to, amount, utxo_view) returns a transaction, its
\* first output is (amount, to), a second output (total_selected_input - amount,
\* sender address) exists exactly when the selected inputs overshoot the amount, and
\* the sum of output values equals the sum of the values of the selected inputs.
\* The function returns when it does not panic: with overflow checks it panics when
\* total_input overflows.
C27_OutputsBalanceSelectedInputs ==
    \A view \in ProbeViews(blockchain), amount \in ProbeAmounts, to \in Recipients,
       overflow_checks \in BOOLEAN :
        \A order \in IterationOrders(DOMAIN view) :
            LET r == create_transaction(to, amount, view, order)
                total_selected_input ==
                    SumValues(SelectedValues(UtxoEntries(view, order), amount, 0))
                returns == /\ r # <<>>
                           /\ ~(overflow_checks /\ SelectionOverflows(amount, view, order))
            IN  returns =>
                    LET outputs == r[1].outputs
                    IN  /\ outputs[1] = TxOutput(amount, to)
                        /\ IF total_selected_input > amount
                           THEN /\ Len(outputs) = 2
                                /\ outputs[2] = TxOutput(total_selected_input - amount,
                                                         WalletAddress)
                           ELSE Len(outputs) = 1
                        /\ SumValues([i \in DOMAIN outputs |-> outputs[i].value])
                               = total_selected_input

\* The total value of all entries of a UTXO view
TotalValue(utxo_set) == SumOver(utxo_set, DOMAIN utxo_set)

\* Option 1 has asked the wallet, and the wallet has returned nothing
TransferRefused == mpc = "menu" /\ mpc' \in {"ct_push", "m_done"} /\ created_tx' = <<>>

\* C28: when the requested amount exceeds the total value of all entries in the UTXO
\* view, create_transaction returns nothing, and the user-initiated transfer leaves the
\* pending pool and the chain unchanged and broadcasts nothing.
C28_InsufficientFundsChangesNothing ==
    /\ [](mpc = "menu"
            => \A to \in Recipients, amount \in ProbeAmounts :
                   amount > TotalValue(blockchain.utxo_set)
                   => \A order \in IterationOrders(DOMAIN blockchain.utxo_set) :
                          create_transaction(to, amount, blockchain.utxo_set, order) = <<>>)
    /\ [][/\ TransferRefused
               => /\ mpc' = "m_done"
                  /\ broadcast' = <<>>
                  /\ UNCHANGED <<blockchain, pending_transactions>>
          /\ mpc = "m_done" /\ created_tx = <<>> /\ broadcast = <<>> /\ mpc' # mpc
               => /\ mpc' = "menu"
                  /\ broadcast' = <<>>
                  /\ UNCHANGED <<blockchain, pending_transactions>>]_vars

\* C28 witness: option 1 has ended without a transaction, at a node whose index holds
\* less than the largest amount a user asks for and that has transactions pooled
C28_TransferRefused ==
    /\ mpc = "m_done"
    /\ created_tx = <<>>
    /\ broadcast = <<>>
    /\ \E amount \in Amounts : amount > TotalValue(blockchain.utxo_set)
    /\ pending_transactions # <<>>
    /\ Len(blockchain.blocks) > 1

-----------------------------------------------------------------------------
(* Balances *)

\* The entries of the index, as <<transaction hash, position in its vector>>
IndexEntries(utxo_set) ==
    UNION {{<<h, j>> : j \in DOMAIN utxo_set[h]} : h \in DOMAIN utxo_set}

\* The address that the output an entry names is paid to
OwnerOf(blocks, utxo_set, e) ==
    LET txs == AllTransactions(blocks)
        p == CHOOSE q \in DOMAIN txs : calculate_tx_hash(txs[q]) = e[1]
    IN  txs[p].outputs[utxo_set[e[1]][e[2]][1] + 1].script_pubkey

RECURSIVE SumOfEntries(_, _)
SumOfEntries(utxo_set, entries) ==
    IF entries = {} THEN 0
    ELSE LET e == CHOOSE x \in entries : TRUE
         IN  utxo_set[e[1]][e[2]][2] + SumOfEntries(utxo_set, entries \ {e})

\* The sum of the values of the entries whose owning output pays address
OwnedUnspentValue(bc, address) ==
    SumOfEntries(bc.utxo_set,
                 {e \in IndexEntries(bc.utxo_set) :
                     OwnerOf(bc.blocks, bc.utxo_set, e) = address})

\* Chains whose balances may be asked for: the node's, and the node's after a peer's
\* block with PeerJackpot
ProbeLedgers(bc) ==
    {bc} \cup {add_received_block(bc, PeerBlock(calculate_hash(Last(bc.blocks)),
                                                <<PeerJackpot>>, now, "mined")) :
                  now \in Clock}

ProbeAddresses == {"genesis_address", "peer_address", "bob_address", WalletAddress, "nobody"}

\* C29: get_balance(address) equals the sum of the values of exactly those unspent
\* outputs (entries of the UTXO index) whose owning output's script_pubkey equals
\* address; outputs paid to other addresses and spent outputs contribute nothing.
\* get_balance returns when it does not panic: with overflow checks it panics when
\* balance overflows.
C29_BalanceIsOwnedUnspentValue ==
    \A bc \in ProbeLedgers(blockchain), address \in ProbeAddresses,
       overflow_checks \in BOOLEAN :
        ~(overflow_checks /\ get_balance_overflows(bc, address))
            => get_balance(bc, address) = OwnedUnspentValue(bc, address)

-----------------------------------------------------------------------------
(* The snapshot file *)

\* The chain of a peer that runs with difficulty 1: its genesis block and one block
ForeignChain(now) ==
    LET genesis == create_genesis_block(1)
    IN  <<genesis,
          mine([Block_new(calculate_hash(genesis), 1, now)
                   EXCEPT !.transactions = <<PeerCoinbase>>])>>

\* Chains the node may save: its own, and its own after a SendBlocks event with a
\* candidate the handler installs
SavedChains(bc, file) ==
    {bc} \cup {rebuild_utxo_set(replace_chain(bc, blocks)) :
                  blocks \in {c \in {ForeignChain(now) : now \in Clock} :
                                 ~NotReplacing(bc, file, c)}}

\* Snapshot contents that are missing or cannot be turned into a chain
NoChainFiles == {NoFile, NotJson, save_to_file(<<>>)}

\* C30: saving a chain and loading it back yields a chain with the same block sequence
\* and the same difficulty, with the UTXO index rebuilt from the loaded blocks; for any
\* snapshot content that is missing or cannot be turned into a chain, load_from_file
\* returns None rather than failing.
C30_SaveLoadRoundTrip ==
    /\ \A bc \in SavedChains(blockchain, blockchain_json) :
           /\ ~load_from_file_panics(save_to_file(bc.blocks))
           /\ load_from_file(save_to_file(bc.blocks))
                  = <<[blocks |-> bc.blocks, utxo_set |-> update_utxo_set(bc.blocks),
                       difficulty |-> bc.difficulty]>>
    /\ \A file \in NoChainFiles :
           /\ ~load_from_file_panics(file)
           /\ load_from_file(file) = <<>>

-----------------------------------------------------------------------------
(* Mining over a pool longer than one block can take *)

MaxDrain == 12   \* the number of transactions the peers broadcast

\* The k-th transfer a peer broadcasts: it spends the genesis output and pays k
DrainTransaction(k) ==
    Transaction_new(
        <<TxInput(calculate_tx_hash(GenesisCoinbase), 0, "peer_address:signature")>>,
        <<TxOutput(k, "bob_address"), TxOutput(GenesisReward - k, "peer_address")>>)

\* The transfers that have reached this node: in its pool, drained by the miner or in
\* its chain
Delivered ==
    {k \in 1..MaxDrain :
        \/ DrainTransaction(k) \in Range(pending_transactions)
        \/ DrainTransaction(k) \in Range(transactions)
        \/ DrainTransaction(k) \in Range(AllTransactions(blockchain.blocks))}

\* The peers broadcast their transfers one after the other
NextTransactions ==
    {DrainTransaction(k) : k \in {j \in 1..MaxDrain : Delivered = 1..(j - 1)}}

\* A peer's block on our tip that confirms a transfer the peers have broadcast: the
\* second transaction of our pool, or the first one our miner has taken from it
DrainBlocks ==
    {PeerBlock(calculate_hash(Last(blockchain.blocks)), <<PeerCoinbase, tx>>, now, "mined") :
        tx \in {pending_transactions[i] : i \in {2} \cap DOMAIN pending_transactions}
               \cup {transactions[i] : i \in {2} \cap DOMAIN transactions},
        now \in Clock}

\* The handler resumes after an .await of the NewBlock or the NewTransaction arm
DrainHandlerStep ==
    \/ NewBlockReconcile
    \/ NewBlockRequestSync
    \/ AdmitValid
    \/ AdmitInvalid
    \/ NewTransactionRequestSync
    \/ HandlerLoop

\* The user mines (option 2) while peers broadcast transfers and blocks; the two tasks
\* interleave at every .await
NextDrain ==
    \/ \E tx \in NextTransactions : ReceiveNewTransaction(tx)
    \/ \E block \in DrainBlocks : HandleNewBlock(block)
    \/ DrainHandlerStep
    \/ StartMining
    \/ MineStep
    \/ MenuLoop

SpecDrain == Init /\ [][NextDrain]_vars

RECURSIVE IsSubsequence(_, _)
IsSubsequence(a, b) ==
    IF a = <<>> THEN TRUE
    ELSE IF b = <<>> THEN FALSE
    ELSE IF Head(a) = Head(b) THEN IsSubsequence(Tail(a), Tail(b))
    ELSE IsSubsequence(a, Tail(b))

\* The pool after a step holds transactions of the pool before it in their order, or
\* the pool before it with one transaction added at the back
OrderKept(before, after) ==
    \/ IsSubsequence(after, before)
    \/ after # <<>> /\ SubSeq(after, 1, Len(after) - 1) = before

\* The step of option 2 that pops the pool (main.rs:613-616)
MinePops == mpc = "mine_pop" /\ mpc' = "mine_check"

\* C31: with the handler interleaved at every await, the miner's list starts with the
\* synthesized coinbase transaction and never holds more than 10 further transactions;
\* every pop takes the transaction at the front of the pool of that moment and adds it
\* at the end of the list, the mined block carries exactly that list, and every step
\* of either task leaves the transactions that stay in the pool in their order.
C31_DrainsFrontInOrder ==
    /\ [](mpc \in {"mine_check", "mine_pop", "mine_add"} =>
            /\ transactions[1] = coinbase_tx
            /\ Len(transactions) <= max_tx_per_block + 1)
    /\ [][/\ MinePops =>
               IF pending_transactions = <<>>
               THEN UNCHANGED <<transactions, pending_transactions>>
               ELSE /\ transactions' = Append(transactions, Head(pending_transactions))
                    /\ pending_transactions' = Tail(pending_transactions)
          /\ MinePushes =>
               /\ Last(blockchain'.blocks).transactions = transactions
               /\ Len(blockchain'.blocks) = Len(blockchain.blocks) + 1
          /\ OrderKept(pending_transactions, pending_transactions')]_vars

\* A block has been mined with the coinbase and 10 transactions while more were
\* waiting, and the pool still holds what was not drained
C31_BlockFullPoolNotEmpty ==
    /\ mpc = "mine_last"
    /\ Len(Last(blockchain.blocks).transactions) = max_tx_per_block + 1
    /\ Last(blockchain.blocks).transactions[1] = coinbase_tx
    /\ pending_transactions # <<>>

-----------------------------------------------------------------------------
(* The length of the chain *)

\* C32: every step leaves the block list as it is, appends one block to it, or is the
\* SendBlocks step that replaces it, and then by a strictly longer list; so the length
\* of the chain never decreases.
C32_LengthNeverDecreases ==
    [][\/ blockchain'.blocks = blockchain.blocks
       \/ blockchain'.blocks = Append(blockchain.blocks, Last(blockchain'.blocks))
       \/ /\ SendBlocksReplaces
          /\ blockchain'.blocks = event'.blocks
          /\ Len(blockchain'.blocks) > Len(blockchain.blocks)]_vars

\* A peer's longer chain has just replaced a chain that held a block mined here: the
\* pool still has a transfer spending that block's reward, which the new chain lacks
C32_ReplacedOwnBranch ==
    /\ hpc = "sb_reconcile"
    /\ blockchain.blocks = event.blocks
    /\ coinbase_tx \notin Range(AllTransactions(blockchain.blocks))
    /\ \E i \in DOMAIN pending_transactions :
           \E j \in DOMAIN pending_transactions[i].inputs :
               pending_transactions[i].inputs[j].prev_tx = calculate_tx_hash(coinbase_tx)

-----------------------------------------------------------------------------
(* The broadcast after mining *)

\* The step of option 2 that sends NewBlock (main.rs:623-627)
MineBroadcasts == mpc = "mine_send" /\ mpc' = "m_done"

\* C33: the NewBlock event option 2 sends carries the block it has just mined, the one
\* whose transactions are the list it assembled.
C33_BroadcastsMinedBlock ==
    [][MineBroadcasts =>
         /\ Len(broadcast') = 1
         /\ broadcast'[1].type = "NewBlock"
         /\ broadcast'[1].block.transactions = transactions]_vars

-----------------------------------------------------------------------------
(* Proof of work of the blocks of the chain *)

\* Every block after the first has at least bc.difficulty leading '0' characters
MeetsDifficulty(bc) ==
    \A i \in 2..Len(bc.blocks) : LeadingZeros(bc.blocks[i]) >= bc.difficulty

\* C34: in every reachable state, every block after the first of the local chain has
\* a hash with at least as many leading '0' characters as the chain's difficulty,
\* whatever difficulty the block's own header declares.
C34_EveryBlockMeetsDifficulty == MeetsDifficulty(blockchain)

-----------------------------------------------------------------------------
(* Double spending *)

\* The non-coinbase inputs of the chain: the positions in AllInputs of the chain's
\* transactions whose prev_tx is not the coinbase marker
SpendingInputs(inputs) == {n \in DOMAIN inputs : inputs[n].prev_tx # COINBASE_PREV_TX}

\* C35: across all blocks of the local chain there are never two non-coinbase inputs
\* that reference the same (prev_tx, prev_index).
C35_NoOutputSpentTwice ==
    LET inputs == AllInputs(AllTransactions(blockchain.blocks))
    IN  \A m, n \in SpendingInputs(inputs) :
            (/\ inputs[m].prev_tx = inputs[n].prev_tx
             /\ inputs[m].prev_index = inputs[n].prev_index) => m = n

-----------------------------------------------------------------------------
(* Transactions confirmed twice *)

IsCoinbase(tx) == \A i \in DOMAIN tx.inputs : tx.inputs[i].prev_tx = COINBASE_PREV_TX

\* C36: no non-coinbase transaction is in two blocks of the local chain, and when
\* option 2 appends its block every transaction of the block is valid against the
\* index of that moment.
C36_ConfirmedOnceAndValid ==
    /\ [](\A i, j \in DOMAIN blockchain.blocks :
            i < j => \A tx \in Range(blockchain.blocks[i].transactions) :
                        IsCoinbase(tx) \/ tx \notin Range(blockchain.blocks[j].transactions))
    /\ [][MinePushes =>
            \A i \in DOMAIN transactions : validate_transaction(blockchain, transactions[i])]_vars

-----------------------------------------------------------------------------
(* The snapshot file against the chain *)

\* C37: whenever both tasks are between operations and the snapshot has been written,
\* it holds exactly the serialized block list of the local chain.
C37_SnapshotIsLocalChain ==
    (HandlerAtRest /\ MenuAtRest /\ blockchain_json # NoFile) =>
        blockchain_json = save_to_file(blockchain.blocks)

-----------------------------------------------------------------------------
(* The event consumer *)

\* C38: the event handling task never ends, and it comes back to app_rx.recv() again
\* and again, so that every event delivered to it, a SendBlocks with an empty list
\* included, is handled and the events after it are received.
C38_ConsumerNeverStops ==
    /\ [](hpc # "returned")
    /\ []<>(hpc = "recv")

-----------------------------------------------------------------------------
(* The two bounded channels between the handler task and the transport *)

ChannelCapacity == 100

node_vars == <<blockchain, blockchain_json, pending_transactions, sync_in_progress,
               chain_lock, pool_lock>>

\* run_event_loop, network.rs:305-309: the transport takes an event from its own
\* channel and publishes it (handle_application_event awaits no channel)
TransportTakes ==
    /\ npc = "select"
    /\ event_channel > 0
    /\ event_channel' = event_channel - 1
    /\ UNCHANGED <<node_vars, handler_vars, main_vars, app_channel, npc>>

\* network.rs:311-313 and 474-516: a gossipsub message (here a BlockRequest of a peer)
\* is to be forwarded to the handler's channel
TransportGossip ==
    /\ npc = "select"
    /\ npc' = "forward"
    /\ UNCHANGED <<node_vars, handler_vars, main_vars, app_channel, event_channel>>

\* app_sender.send(..).await, network.rs:502-506: completes when the channel has room
TransportForwards ==
    /\ npc = "forward"
    /\ app_channel < ChannelCapacity
    /\ app_channel' = app_channel + 1
    /\ npc' = "select"
    /\ UNCHANGED <<node_vars, handler_vars, main_vars, event_channel>>

\* network.rs:438-441, 447-450: a connection was established or closed
TransportConnection ==
    /\ npc = "select"
    /\ npc' = "notify"
    /\ UNCHANGED <<node_vars, handler_vars, main_vars, app_channel, event_channel>>

\* self.event_sender.send(PeerConnected / PeerDisconnected).await, network.rs:443, 452:
\* a send on the channel the transport itself receives from
TransportNotifies ==
    /\ npc = "notify"
    /\ event_channel < ChannelCapacity
    /\ event_channel' = event_channel + 1
    /\ npc' = "select"
    /\ UNCHANGED <<node_vars, handler_vars, main_vars, app_channel>>

\* app_rx.recv() yields a queued RequestBlocks, main.rs:149 and 261-272
ChannelReceive ==
    /\ hpc = "recv"
    /\ chain_lock = "free"
    /\ app_channel > 0
    /\ app_channel' = app_channel - 1
    /\ event' = [type |-> "RequestBlocks", blocks_to_send |-> blockchain.blocks]
    /\ hpc' = "rb_send"
    /\ UNCHANGED <<node_vars, sent, main_vars, event_channel, npc>>

\* network_tx_for_network.send(SendBlocks(..)).await, main.rs:274-279: completes when
\* the transport's channel has room
ChannelSend ==
    /\ hpc = "rb_send"
    /\ event_channel < ChannelCapacity
    /\ event_channel' = event_channel + 1
    /\ sent' = Append(sent, [type |-> "SendBlocks", blocks |-> event.blocks_to_send])
    /\ hpc' = "done"
    /\ UNCHANGED <<node_vars, event, main_vars, app_channel, npc>>

\* The handler task and the transport's event loop, each proceeding from one .await
\* to the next at any time, while peers keep requesting the chain
NextChannels ==
    \/ TransportTakes
    \/ TransportGossip
    \/ TransportForwards
    \/ TransportConnection
    \/ TransportNotifies
    \/ ChannelReceive
    \/ ChannelSend
    \/ HandlerLoop

SpecChannels == Init /\ [][NextChannels]_vars

\* The handler is suspended in a send on the transport's full channel
HandlerSendSuspended == AwaitsSend /\ event_channel = ChannelCapacity

\* The transport is suspended in a send on the handler's full channel or on its own
TransportSendSuspended ==
    \/ npc = "forward" /\ app_channel = ChannelCapacity
    \/ npc = "notify" /\ event_channel = ChannelCapacity

\* C39: in no reachable state is the handler task suspended in a send on the full
\* outbound channel while the transport's event loop is suspended in a send on the
\* full inbound channel or on its own full event channel.
C39_NeverBothSuspended == ~(HandlerSendSuspended /\ TransportSendSuspended)

-----------------------------------------------------------------------------
(* The sync guard in the long run *)

====
